---- MODULE Spec2Model ----
(***************************************************************************)
(* Model of the markdown extension pipeline of ATao-Blog:                  *)
(*   MarkdownRenderer.processContent  (src/src/components/Tabs.tsx)        *)
(*   MarkdownRenderer div dispatch    (src/src/components/Tabs.tsx)        *)
(*   parseOrderedListNumbers / updateListNumbers                           *)
(*   parseChatContent / getMinecraftAvatar (src/src/components/Chat.tsx)   *)
(*                                                                         *)
(* A document is a sequence of characters; every character is a string of  *)
(* length one, except the backtick, which TLA+ strings cannot hold and     *)
(* which is written BQ.  The regular expressions of the source are         *)
(* translated one by one into matchers over these sequences, keeping       *)
(* their greedy / lazy / backtracking behaviour.  The alphabet holds no    *)
(* carriage return, so every `\r?` of the source matches the empty string. *)
(***************************************************************************)
EXTENDS Integers, Sequences, FiniteSets, TLC

VARIABLES
    content,                \* the `content` prop of MarkdownRenderer
    text,                   \* the `text` argument of the running processContent call
    pc,                     \* position inside processContent and the render that follows
    result,                 \* processContent's local `result`
    codeBlockPlaceholders,  \* processContent's local array of the re-indentation stage
    codeBlocks,             \* processContent's local array of protected spans
    masked,                 \* `result` right after span protection (before any rewrite)
    extracted,              \* bodies captured by the chat/tabs/timeline/chart extractors
    pass,                   \* 1: first run of processContent, 2: run on its own output
    firstOutput,            \* what the first run returned
    rendered,               \* what the div handler returned for every carrier node
    lines,                  \* parseChatContent / parseOrderedListNumbers: the split lines
    idx,                    \* loop index `i` of the line loops
    currentPerson,          \* parseChatContent local
    currentContent,         \* parseChatContent local
    messages,               \* parseChatContent local (the returned array)
    inCodeBlock,            \* parseOrderedListNumbers local
    codeBlockFence,         \* parseOrderedListNumbers local
    numbers,                \* parseOrderedListNumbers local (the returned array)
    dom,                    \* the realized output: the tree of list elements
    shown,                  \* the text of the .list-number span of every <li>
    tabs,                   \* Tabs: the `tabs` array of the mounted component
    activeTab,              \* Tabs: the activeTab state
    renderedTabs,           \* Tabs: the renderedTabs state
    idleCallbacks,          \* the callbacks handed to requestIdleCallback, not yet run
    hasRequestIdleCallback, \* 'requestIdleCallback' in window
    clicked,                \* the tab buttons clicked so far, in order
    panes,                  \* Tabs: what every pane of the component shows
    processedContentRef,    \* processedContentRef.current: <<>> for null, else one record
    processedContent        \* the processedContent memo: the child of <Markdown>

vars == << content, text, pc, result, codeBlockPlaceholders, codeBlocks, masked, extracted,
           pass, firstOutput, rendered, lines, idx, currentPerson, currentContent,
           messages, inCodeBlock, codeBlockFence, numbers, dom, shown, tabs, activeTab,
           renderedTabs, idleCallbacks, hasRequestIdleCallback, clicked, panes,
           processedContentRef, processedContent >>

MemoVars == << processedContentRef, processedContent >>

TabsVars == << tabs, activeTab, renderedTabs, idleCallbacks, hasRequestIdleCallback,
               clicked, panes, MemoVars >>

\* no Tabs component is mounted, and the ref of the processedContent memo is
\* null
IdleTabs ==
    /\ tabs = <<>> /\ activeTab = 0 /\ renderedTabs = {} /\ idleCallbacks = <<>>
    /\ hasRequestIdleCallback = FALSE /\ clicked = <<>> /\ panes = <<>>
    /\ processedContentRef = <<>> /\ processedContent = <<>>

-----------------------------------------------------------------------------
(* Characters and literals *)

BQ == "BQ"

Chars(s) == [i \in 1..Len(s) |-> SubSeq(s, i, i)]

Rep(c, n) == [i \in 1..n |-> c]

Digits == <<"0", "1", "2", "3", "4", "5", "6", "7", "8", "9">>

IsDigit(c) == c \in {"0", "1", "2", "3", "4", "5", "6", "7", "8", "9"}

\* \s of the source, over the alphabet of the model
IsSpace(c) == c \in {" ", "\n", "\t"}

\* \w of the source
IsWord(c) ==
    c \in {"a","b","c","d","e","f","g","h","i","j","k","l","m","n","o","p","q","r",
           "s","t","u","v","w","x","y","z","A","B","C","D","E","F","G","H","I","J",
           "K","L","M","N","O","P","Q","R","S","T","U","V","W","X","Y","Z","_"}
    \/ IsDigit(c)

RECURSIVE ToDigits(_)
\* `${n}` of a template literal
ToDigits(n) == IF n < 10 THEN <<Digits[n + 1]>>
               ELSE ToDigits(n \div 10) \o <<Digits[(n % 10) + 1]>>

RECURSIVE ParseInt(_)
\* parseInt(id, 10) on a run of digits
ParseInt(ds) == IF ds = <<>> THEN 0
                ELSE 10 * ParseInt(SubSeq(ds, 1, Len(ds) - 1))
                     + (CHOOSE v \in 0..9 : Digits[v + 1] = ds[Len(ds)])

\* String(undefined): what String.prototype.replace inserts when the callback
\* returns codeBlocks[n] for an index the array does not have
Undefined == Chars("undefined")

-----------------------------------------------------------------------------
(* String primitives *)

\* s.startsWith(lit, i - 1)
MatchAt(s, i, lit) ==
    /\ i >= 1
    /\ i + Len(lit) - 1 <= Len(s)
    /\ \A k \in 1..Len(lit) : s[i + k - 1] = lit[k]

\* the least of the indices S of lo..hi, hi + 1 when there is none (lo when
\* the range is empty): where the loop "advance while the test fails" stops
FirstSuch(S, lo, hi) ==
    IF S = {} THEN (IF lo > hi THEN lo ELSE hi + 1)
    ELSE CHOOSE j \in S : \A k \in S : j <= k

\* the greatest of the indices S of lo..hi, lo - 1 when there is none
LastSuch(S, lo, hi) ==
    IF S = {} THEN (IF lo > hi THEN hi ELSE lo - 1)
    ELSE CHOOSE j \in S : \A k \in S : k <= j

\* s.indexOf(lit, i - 1) + 1; 0 when there is none
IndexOf(s, lit, i) ==
    IF \E k \in i..(Len(s) - Len(lit) + 1) : MatchAt(s, k, lit)
    THEN FirstSuch({k \in i..(Len(s) - Len(lit) + 1) : MatchAt(s, k, lit)}, i, Len(s))
    ELSE 0

Includes(s, lit) == IndexOf(s, lit, 1) # 0

From(s, i) == SubSeq(s, i, Len(s))

\* the index after the longest run of character c that starts at i
RunEnd(s, i, c) == FirstSuch({k \in i..Len(s) : s[k] # c}, i, Len(s))

\* the index after the longest run of \s that starts at i
SpaceEnd(s, i) == FirstSuch({k \in i..Len(s) : ~IsSpace(s[k])}, i, Len(s))

DigitEnd(s, i) == FirstSuch({k \in i..Len(s) : ~IsDigit(s[k])}, i, Len(s))

WordEnd(s, i) == FirstSuch({k \in i..Len(s) : ~IsWord(s[k])}, i, Len(s))

\* the index after the longest run of characters outside the set `stop`
NotInEnd(s, i, stop) == FirstSuch({k \in i..Len(s) : s[k] \in stop}, i, Len(s))

TrimEndIdx(s, j) == LastSuch({k \in 1..j : ~IsSpace(s[k])}, 1, j)

\* s.trim()
Trim(s) == SubSeq(s, SpaceEnd(s, 1), TrimEndIdx(s, Len(s)))

\* s.trimEnd()
TrimEnd(s) == SubSeq(s, 1, TrimEndIdx(s, Len(s)))

RECURSIVE SplitLines(_, _)
\* s.split('\n')
SplitLines(s, i) ==
    LET j == IndexOf(s, <<"\n">>, i)
    IN  IF j = 0 THEN <<SubSeq(s, i, Len(s))>>
        ELSE <<SubSeq(s, i, j - 1)>> \o SplitLines(s, j + 1)

RECURSIVE JoinLines(_)
\* ls.join('\n')
JoinLines(ls) ==
    IF ls = <<>> THEN <<>>
    ELSE IF Len(ls) = 1 THEN ls[1]
    ELSE ls[1] \o <<"\n">> \o JoinLines(Tail(ls))

RECURSIVE Concat(_)
\* ss.join(''): the pieces of a string put together in order
Concat(ss) ==
    IF Len(ss) = 0 THEN <<>>
    ELSE IF Len(ss) = 1 THEN ss[1]
    ELSE LET h == Len(ss) \div 2
         IN  Concat(SubSeq(ss, 1, h)) \o Concat(SubSeq(ss, h + 1, Len(ss)))

ToLower(c) ==
    LET up == Chars("ABCDEFGHIJKLMNOPQRSTUVWXYZ")
        lo == Chars("abcdefghijklmnopqrstuvwxyz")
    IN  IF \E k \in 1..26 : up[k] = c
        THEN lo[CHOOSE k \in 1..26 : up[k] = c]
        ELSE c

\* s.toLowerCase()
LowerCase(s) == [i \in 1..Len(s) |-> ToLower(s[i])]

\* a match of a regular expression: [from, to] is the matched range (to = 0: no
\* match), g[k] is the range of the k-th capture as <<first, last>>
NoMatch == [from |-> 0, to |-> 0, g |-> <<>>]

Hit(a, b, groups) == [from |-> a, to |-> b, g |-> groups]

Grp(s, m, k) == SubSeq(s, m.g[k][1], m.g[k][2])

Whole(s, m) == SubSeq(s, m.from, m.to)

RECURSIVE Splice(_, _, _, _, _)
\* the string String.prototype.replace builds: the text between the matches kept,
\* every match ms[k] replaced by repl[k]
Splice(s, ms, repl, k, at) ==
    IF k > Len(ms) THEN SubSeq(s, at, Len(s))
    ELSE SubSeq(s, at, ms[k].from - 1) \o repl[k] \o Splice(s, ms, repl, k + 1, ms[k].to + 1)

-----------------------------------------------------------------------------
(* processContent: protection of code *)

\* (^|\n)(FENCE{3,})([\s\S]*?)\2 tried at index i; without the m flag ^ is the
\* start of the string only.  With the fence starting at f, the fence is taken as
\* long as possible (n characters) and shortened one character at a time (down
\* to 3) until the same run of characters is found again after it; the content
\* is lazy, so the first such run closes the block.
FenceMatch(s, i, fenceChars) ==
    LET Closed(st, f, k, j) ==
            Hit(st, j + k - 1, << <<st, f - 1>>, <<f, f + k - 1>>, <<f + k, j - 1>> >>)
        Fence(st, f, k) ==
            IF k < 3 THEN NoMatch ELSE Closed(st, f, k, IndexOf(s, Rep(s[f], k), f + k))
        Longest(st, f, n) ==
            Fence(st, f, LastSuch({k \in 3..n : IndexOf(s, Rep(s[f], k), f + k) # 0}, 3, n))
        FenceAt(st, f) ==
            IF f <= Len(s) /\ s[f] \in fenceChars
            THEN Longest(st, f, RunEnd(s, f, s[f]) - f)
            ELSE NoMatch
    IN  IF i = 1 /\ FenceAt(1, 1).to # 0 THEN FenceAt(1, 1)
        ELSE IF s[i] = "\n" THEN FenceAt(i, i + 1)
        ELSE NoMatch

CodeBlockPrefix == Chars("___CODE_BLOCK_")

\* `___CODE_BLOCK_PLACEHOLDER_${n}___`
PlaceholderToken(n) == Chars("___CODE_BLOCK_PLACEHOLDER_") \o ToDigits(n) \o Chars("___")

\* `___CODE_BLOCK_${n}___`
CodeBlockToken(n) == CodeBlockPrefix \o ToDigits(n) \o Chars("___")


-----------------------------------------------------------------------------
(* encodeURIComponent / decodeURIComponent *)

\* the characters with codes 32..126, in code order
Ascii == Chars(" !\"#$%&'()*+,-./0123456789:;<=>?@ABCDEFGHIJKLMNOPQRSTUVWXYZ[\\]^_")
         \o <<BQ>> \o Chars("abcdefghijklmnopqrstuvwxyz{|}~")

HexDigits == Chars("0123456789ABCDEF")

\* a UTF-16 surrogate written without its partner
LoneSurrogate == "D800"

\* the URIError encodeURIComponent throws, written where it was thrown
URIError == "URIError"

\* the call that built s threw
Threw(s) == \E i \in 1..Len(s) : s[i] = URIError

\* encodeURIComponent(s); it throws URIError on a lone surrogate
encodeURIComponent(s) ==
    LET PercentByte(b) == <<"%", HexDigits[(b \div 16) + 1], HexDigits[(b % 16) + 1]>>
        \* the characters encodeURIComponent leaves alone: A-Z a-z 0-9 - _ . ! ~ * ' ( )
        IsUnreserved(c) == IsWord(c) \/ c \in {"-", ".", "!", "~", "*", "'", "(", ")"}
        \* the UTF-8 bytes of one character of the alphabet
        Utf8(c) ==
            IF c = "\n" THEN <<10>>
            ELSE IF c = "\t" THEN <<9>>
            ELSE IF c = "é" THEN <<195, 169>>
            ELSE <<31 + (CHOOSE k \in 1..Len(Ascii) : Ascii[k] = c)>>
        Percent(bs) ==
            IF Len(bs) = 1 THEN PercentByte(bs[1])
            ELSE PercentByte(bs[1]) \o PercentByte(bs[2])
        EncodeChar(c) == IF c \in {LoneSurrogate, URIError} THEN <<URIError>>
                         ELSE IF IsUnreserved(c) THEN <<c>>
                         ELSE Percent(Utf8(c))
    IN  Concat([i \in 1..Len(s) |-> EncodeChar(s[i])])

\* decodeURIComponent(s): [ok |-> FALSE] stands for the URIError it throws on a
\* % not followed by two hex digits or on bytes that are not UTF-8
decodeURIComponent(s) ==
    LET IsHex(c) == c \in {"0", "1", "2", "3", "4", "5", "6", "7", "8", "9", "A", "B",
                           "C", "D", "E", "F", "a", "b", "c", "d", "e", "f"}
        HexVal(c) ==
            (CHOOSE k \in 1..16 : HexDigits[k] = c \/ ToLower(HexDigits[k]) = c) - 1
        \* the byte written %XY at index i, or -1 when s has no %XY there
        ByteAt(i) ==
            IF i + 2 <= Len(s) /\ s[i] = "%" /\ IsHex(s[i + 1]) /\ IsHex(s[i + 2])
            THEN 16 * HexVal(s[i + 1]) + HexVal(s[i + 2])
            ELSE -1
        IsContinuation(i) == ByteAt(i) >= 128 /\ ByteAt(i) <= 191
        \* the character with code b < 128
        CharOfCode(b) ==
            IF b = 10 THEN "\n"
            ELSE IF b = 9 THEN "\t"
            ELSE IF b >= 32 /\ b <= 126 THEN Ascii[b - 31]
            ELSE "CONTROL"
        \* the number of continuation bytes the UTF-8 lead byte b announces; -1
        \* for a byte that cannot start a character
        Followers(b) ==
            IF b < 0 THEN -1
            ELSE IF b < 128 THEN 0
            ELSE IF b >= 194 /\ b <= 223 THEN 1
            ELSE IF b >= 224 /\ b <= 239 THEN 2
            ELSE IF b >= 240 /\ b <= 244 THEN 3
            ELSE -1
        \* s[i] is a % at which a character starts: it is no continuation byte
        \* of a lead byte written before it
        StartsChar(i) ==
            /\ s[i] = "%"
            /\ ~\E k \in 1..3 :
                  /\ i - 3 * k >= 1
                  /\ s[i - 3 * k] = "%"
                  /\ Followers(ByteAt(i - 3 * k)) >= k
                  /\ \A j \in 1..k : IsContinuation(i - 3 * k + 3 * j)
        \* s[i] is one of the two hex digits of an escape
        InEscape(i) ==
            \/ i >= 2 /\ s[i - 1] = "%" /\ ByteAt(i - 1) >= 0
            \/ i >= 3 /\ s[i - 2] = "%" /\ ByteAt(i - 2) >= 0
        \* the escape that starts a character at i is malformed: no two hex
        \* digits, no lead byte, or one of the n continuation bytes missing
        Missing(i, n) == n < 0 \/ \E k \in 1..n : ~IsContinuation(i + 3 * k)
        BadEscape(i)  == Missing(i, Followers(ByteAt(i)))
        CharOf(i, b)  ==
            IF b < 128 THEN <<CharOfCode(b)>>
            ELSE IF b = 195 /\ ByteAt(i + 3) = 169 THEN <<"é">>
            ELSE <<"NONASCII">>
        \* what index i of s contributes to the decoded string
        DecodedAt(i) ==
            IF s[i] # "%" THEN IF InEscape(i) THEN <<>> ELSE <<s[i]>>
            ELSE IF ~StartsChar(i) THEN <<>>
            ELSE CharOf(i, ByteAt(i))
    IN  IF \E x \in 1..Len(s) : StartsChar(x) /\ BadEscape(x)
        THEN [ok |-> FALSE, val |-> <<>>]
        ELSE [ok |-> TRUE, val |-> Concat([x \in 1..Len(s) |-> DecodedAt(x)])]

-----------------------------------------------------------------------------
(* processContent: the regular expressions of the block extractors *)

Fence3 == Chars(":::")

NlFence3 == Chars("\n:::")

\* /:::KIND\{([^}]*)\}\r?\n([\s\S]*?)\r?\n:::/ tried at index i
AttrBlockMatch(s, i, head) ==
    IF ~MatchAt(s, i, head) THEN NoMatch
    ELSE LET a == i + Len(head)
             b == NotInEnd(s, a, {"}"})
             j == IndexOf(s, NlFence3, b + 2)
         IN  IF b <= Len(s) /\ b + 1 <= Len(s) /\ s[b + 1] = "\n" /\ j # 0
             THEN Hit(i, j + 3, << <<a, b - 1>>, <<b + 2, j - 1>> >>)
             ELSE NoMatch

\* /:::KIND\{([^}]*)\}([^\n]+?):::/ tried at index i
AttrInlineMatch(s, i, head) ==
    IF ~MatchAt(s, i, head) THEN NoMatch
    ELSE LET a == i + Len(head)
             b == NotInEnd(s, a, {"}"})
             j == IndexOf(s, Fence3, b + 2)
         IN  IF b <= Len(s) /\ j # 0 /\ NotInEnd(s, b + 1, {"\n"}) >= j
             THEN Hit(i, j + 2, << <<a, b - 1>>, <<b + 1, j - 1>> >>)
             ELSE NoMatch

(* processContent: the regular expressions of the inline rewrites *)

\* \[(TEXT)\]\(([^)]+)\)\s*\{([^}]+)\} with the [ at index b; minText is 0 for
\* [^\]]* and 1 for [^\]]+
BracketAttrMatch(s, st, b, minText) ==
    LET t == NotInEnd(s, b + 1, {"]"})
        u == NotInEnd(s, t + 2, {")"})
        w == SpaceEnd(s, u + 1)
        e == NotInEnd(s, w + 1, {"}"})
    IN  IF /\ b <= Len(s) /\ s[b] = "["
           /\ t - (b + 1) >= minText
           /\ MatchAt(s, t, Chars("]("))
           /\ u > t + 2 /\ u <= Len(s)
           /\ w <= Len(s) /\ s[w] = "{"
           /\ e > w + 1 /\ e <= Len(s)
        THEN Hit(st, e, << <<b + 1, t - 1>>, <<t + 2, u - 1>>, <<w + 1, e - 1>> >>)
        ELSE NoMatch

RECURSIVE AllMatches(_, _, _)
\* the matches a /g replace visits in a string of length n, at[k] being what the
\* regular expression finds at index k: leftmost first, each search resuming
\* right after the previous match
AllMatches(at, n, i) ==
    LET Take(j) == IF j > n THEN <<>> ELSE <<at[j]>> \o AllMatches(at, n, at[j].to + 1)
    IN  Take(FirstSuch({k \in i..n : at[k].to # 0}, i, n))

\* the matches of /HEAD\s*\r?\n([\s\S]*?)CLOSER/g in s.  After HEAD, \s* has
\* taken the white space a..p0 and gives it back one character at a time; the
\* first p (from the right) that is a line feed with a CLOSER somewhere after it
\* gives the match, and the lazy body ends at the first CLOSER.
HeadBodyMatches(s, head, closer) ==
    LET Closed(i, p, j) == Hit(i, j + Len(closer) - 1, << <<p + 1, j - 1>> >>)
        Body(i, a, p)   == IF p < a THEN NoMatch ELSE Closed(i, p, IndexOf(s, closer, p + 1))
        Try(i, a, p0)   ==
            Body(i, a, LastSuch({p \in a..p0 : s[p] = "\n" /\ IndexOf(s, closer, p + 1) # 0},
                                a, p0))
        At(i) == IF ~MatchAt(s, i, head) THEN NoMatch
                 ELSE Try(i, i + Len(head), SpaceEnd(s, i + Len(head)) - 1)
    IN  AllMatches([x \in 1..Len(s) |-> At(x)], Len(s), 1)

\* the matches of /:::link-card\{([^}]+)\}\s*\r?\n?([\s\S]*?):::/g in s
LinkCardMatches(s) ==
    LET At(i) ==
            IF ~MatchAt(s, i, Chars(":::link-card{")) THEN NoMatch
            ELSE LET a == i + 13
                     b == NotInEnd(s, a, {"}"})
                     c == SpaceEnd(s, b + 1)
                     j == IndexOf(s, Fence3, c)
                 IN  IF b > a /\ b <= Len(s) /\ j # 0
                     THEN Hit(i, j + 2, << <<a, b - 1>>, <<c, j - 1>> >>)
                     ELSE NoMatch
    IN  AllMatches([x \in 1..Len(s) |-> At(x)], Len(s), 1)

-----------------------------------------------------------------------------
(* processContent: attribute parsers *)

\* s.replace(/"/g, '&quot;')
EscapeQuotes(s) ==
    LET ms == [k \in 1..Len(s) |-> IF s[k] = "\"" THEN Chars("&quot;") ELSE <<s[k]>>]
        Cat[k \in 0..Len(s)] == IF k = 0 THEN <<>> ELSE Cat[k - 1] \o ms[k]
    IN  Cat[Len(s)]

\* .replace(/'/g, '&#39;')
EscapeApostrophes(s) ==
    LET ms == [k \in 1..Len(s) |-> IF s[k] = "'" THEN Chars("&#39;") ELSE <<s[k]>>]
        Cat[k \in 0..Len(s)] == IF k = 0 THEN <<>> ELSE Cat[k - 1] \o ms[k]
    IN  Cat[Len(s)]

\* key matched at index i under the i flag
MatchAtCI(s, i, key) ==
    /\ i + Len(key) - 1 <= Len(s)
    /\ \A k \in 1..Len(key) : ToLower(s[i + k - 1]) = key[k]

NoAttr == [found |-> FALSE, val |-> <<>>]

\* attrs.match(/KEY\s*(\w+)/i) searched from index i: the leftmost match (KEY
\* ends with the colon)
WordAttr(s, i, key) ==
    LET Val(b, e) == IF e > b THEN [found |-> TRUE, val |-> SubSeq(s, b, e - 1)] ELSE NoAttr
        Word(b)   == Val(b, WordEnd(s, b))
        At(k)     == IF ~MatchAtCI(s, k, key) THEN NoAttr
                     ELSE Word(SpaceEnd(s, k + Len(key)))
        Take(j)   == IF j > Len(s) THEN NoAttr ELSE At(j)
    IN  Take(FirstSuch({k \in i..Len(s) : At(k).found}, i, Len(s)))

\* attrs.match(/KEY\s*QUOTE?([^STOP]+)QUOTE?/i) searched from index i: the
\* leftmost match.  \s* takes all the white space a..b-1 and an opening quote is
\* taken when there is one; when no value character follows, \s* gives back its
\* last character, which then is the whole value.
FreeAttr(s, i, key, quotes, stop) ==
    LET Val(a, b, q, e, e0) ==
            IF e > q THEN [found |-> TRUE, val |-> SubSeq(s, q, e - 1)]
            ELSE IF e0 > b THEN [found |-> TRUE, val |-> SubSeq(s, b, e0 - 1)]
            ELSE IF b > a THEN [found |-> TRUE, val |-> <<s[b - 1]>>]
            ELSE NoAttr
        Quoted(a, b, q) == Val(a, b, q, NotInEnd(s, q, stop), NotInEnd(s, b, stop))
        Spaced(a, b)    ==
            Quoted(a, b, IF b <= Len(s) /\ s[b] \in quotes THEN b + 1 ELSE b)
        At(k)   == IF ~MatchAtCI(s, k, key) THEN NoAttr
                   ELSE Spaced(k + Len(key), SpaceEnd(s, k + Len(key)))
        Take(j) == IF j > Len(s) THEN NoAttr ELSE At(j)
    IN  Take(FirstSuch({k \in i..Len(s) : At(k).found}, i, Len(s)))

\* the caption of parseVideoAttrs and of the image rewrite: the text after
\* caption: up to a following `, KEY:` of the other attributes
ParseCaption(attrs, keys) ==
    LET \* /\s*,\s*(KEYS):.*$/i tried at index i of s: a comma, one of the keys
        \* and a colon, with no line feed from there to the end of the string
        TrailingAttrAt(s, i) ==
            LET b == SpaceEnd(s, i)
                c == SpaceEnd(s, b + 1)
            IN  /\ b <= Len(s) /\ s[b] = ","
                /\ \E key \in keys : /\ MatchAtCI(s, c, key \o <<":">>)
                                     /\ NotInEnd(s, c, {"\n"}) > Len(s)
        \* s.replace(/\s*,\s*(KEYS):.*$/i, '')
        CutTrailingAttrs(s) ==
            SubSeq(s, 1, FirstSuch({k \in 1..Len(s) : TrailingAttrAt(s, k)}, 1, Len(s)) - 1)
        \* attrs.search(/caption:\s*/i) + 1, beyond the end when there is none
        At(captionIndex) ==
            IF captionIndex > Len(attrs) THEN <<>>
            ELSE Trim(CutTrailingAttrs(From(attrs, captionIndex + 8)))
    IN  At(FirstSuch({k \in 1..Len(attrs) : MatchAtCI(attrs, k, Chars("caption:"))},
                     1, Len(attrs)))

parseVideoAttrs(attrs) ==
    LET widthMatch    == FreeAttr(attrs, 1, Chars("width:"), {}, {",", "}"})
        alignMatch    == WordAttr(attrs, 1, Chars("align:"))
        autoplayMatch == WordAttr(attrs, 1, Chars("autoplay:"))
        controlsMatch == WordAttr(attrs, 1, Chars("controls:"))
        loopMatch     == WordAttr(attrs, 1, Chars("loop:"))
        mutedMatch    == WordAttr(attrs, 1, Chars("muted:"))
        AttrIs(m, word) == m.found /\ LowerCase(m.val) = Chars(word)
    IN  [ width    |-> IF widthMatch.found THEN Trim(widthMatch.val) ELSE <<>>,
          align    |-> IF alignMatch.found THEN LowerCase(alignMatch.val) ELSE Chars("center"),
          autoplay |-> AttrIs(autoplayMatch, "true"),
          controls |-> ~AttrIs(controlsMatch, "false"),
          loop     |-> AttrIs(loopMatch, "true"),
          muted    |-> AttrIs(mutedMatch, "true"),
          caption  |-> ParseCaption(attrs, {Chars("align"), Chars("width"), Chars("autoplay"),
                                            Chars("controls"), Chars("loop"), Chars("muted")}) ]

buildVideoAttrs(url, attrs) ==
    Chars("data-video-url=\"") \o EscapeQuotes(url) \o Chars("\"")
    \o Chars(" data-video-align=\"") \o attrs.align \o Chars("\"")
    \o (IF attrs.width # <<>>
        THEN Chars(" data-video-width=\"") \o attrs.width \o Chars("\"") ELSE <<>>)
    \o (IF attrs.autoplay THEN Chars(" data-video-autoplay=\"true\"") ELSE <<>>)
    \o (IF ~attrs.controls THEN Chars(" data-video-controls=\"false\"") ELSE <<>>)
    \o (IF attrs.loop THEN Chars(" data-video-loop=\"true\"") ELSE <<>>)
    \o (IF attrs.muted THEN Chars(" data-video-muted=\"true\"") ELSE <<>>)
    \o (IF attrs.caption # <<>>
        THEN Chars(" data-video-caption=\"") \o EscapeQuotes(attrs.caption) \o Chars("\"")
        ELSE <<>>)

validTypes == {Chars("info"), Chars("success"), Chars("warning"), Chars("error")}

\* the type parseAlertAttrs falls back to
DefaultAlertType == Chars("info")

\* parseAlertAttrs with another fallback type
parseAlertAttrsFallbackSuccess(attrs) ==
    LET typeMatch  == WordAttr(attrs, 1, Chars("type:"))
        titleMatch == FreeAttr(attrs, 1, Chars("title:"), {}, {",", "}"})
        type       == IF typeMatch.found THEN LowerCase(typeMatch.val) ELSE Chars("success")
    IN  [ normalizedType |-> IF type \in validTypes THEN type ELSE Chars("success"),
          title          |-> IF titleMatch.found THEN Trim(titleMatch.val) ELSE <<>> ]

parseAlertAttrs(attrs) ==
    LET typeMatch  == WordAttr(attrs, 1, Chars("type:"))
        titleMatch == FreeAttr(attrs, 1, Chars("title:"), {}, {",", "}"})
        type       == IF typeMatch.found THEN LowerCase(typeMatch.val) ELSE DefaultAlertType
    IN  [ normalizedType |-> IF type \in validTypes THEN type ELSE DefaultAlertType,
          title          |-> IF titleMatch.found THEN Trim(titleMatch.val) ELSE <<>> ]

buildAlertHtml(type, title, body) ==
    Chars("\n<div data-alert-type=\"") \o type \o Chars("\"")
    \o (IF title # <<>>
        THEN Chars(" data-alert-title=\"") \o EscapeQuotes(title) \o Chars("\"") ELSE <<>>)
    \o Chars(" class=\"alert-block alert-") \o type \o Chars("\">\n\n")
    \o body \o Chars("\n\n</div>\n")

-----------------------------------------------------------------------------
(* processContent: the stages, in the order of the source *)

\* !text || text.trim().length === 0
IsBlank(txt) == \A k \in 1..Len(txt) : IsSpace(txt[k])

\* stage 1: fenced code (backticks or tildes) -> ___CODE_BLOCK_PLACEHOLDER_n___
ProtectForIndent(s) ==
    LET Put(ms) ==
            [ text   |-> Splice(s, ms, [k \in 1..Len(ms) |-> PlaceholderToken(k - 1)], 1, 1),
              blocks |-> [k \in 1..Len(ms) |-> Whole(s, ms[k])] ]
    IN  Put(AllMatches([x \in 1..Len(s) |-> FenceMatch(s, x, {BQ, "~"})], Len(s), 1))

\* a re-indentation that leaves every line as it is
FixListIndentationKeep(s) == s

\* stage 2: lines = result.split('\n'); the loop over the lines; result =
\* fixedLines.join('\n')
FixListIndentation(s) ==
    LET \* line.match(/^(\s*)(\d+\.\s+.*)$/)
        ListLineMatch(line) ==
            LET w == SpaceEnd(line, 1)
                d == DigitEnd(line, w)
            IN  IF /\ d > w /\ d + 1 <= Len(line) /\ line[d] = "." /\ IsSpace(line[d + 1])
                   /\ NotInEnd(line, d, {"\n"}) > Len(line)
                THEN [found |-> TRUE, indent |-> w - 1, text |-> From(line, w)]
                ELSE [found |-> FALSE, indent |-> 0, text |-> <<>>]
        \* the body of the loop for line i: the lines pushed to fixedLines
        Fixed(ls, i, line, listMatch, prevListMatch) ==
            LET indentLength     == listMatch.indent
                prevIndentLength == IF prevListMatch.found THEN prevListMatch.indent ELSE 0
                blank == IF /\ indentLength > 0 /\ prevListMatch.found
                            /\ prevIndentLength < indentLength
                            /\ i > 1 /\ Trim(ls[i - 1]) # <<>>
                         THEN << <<>> >> ELSE <<>>
            IN  IF ~listMatch.found THEN <<line>>
                ELSE IF indentLength > 0
                THEN blank \o
                     (IF indentLength >= 2 /\ indentLength <= 4
                      THEN << Rep(" ", 4) \o listMatch.text >>
                      ELSE IF indentLength >= 5 /\ indentLength <= 6
                      THEN << Rep(" ", 7) \o listMatch.text >>
                      ELSE <<line>>)
                ELSE <<line>>
        FixLine(ls, i) ==
            Fixed(ls, i, ls[i], ListLineMatch(ls[i]),
                  ListLineMatch(IF i > 1 THEN ls[i - 1] ELSE <<>>))
        FixLines(ls) == Concat([i \in 1..Len(ls) |-> FixLine(ls, i)])
    IN  JoinLines(FixLines(SplitLines(s, 1)))

RECURSIVE GetSubstitution(_, _, _, _, _)
\* the replacement text of String.prototype.replace(string, string): $$ is a
\* dollar, $& the match, $` the text before it, $' the text after it
GetSubstitution(repl, k, s, a, b) ==
    IF k > Len(repl) THEN <<>>
    ELSE IF repl[k] = "$" /\ k < Len(repl) /\ repl[k + 1] \in {"$", "&", BQ, "'"}
    THEN (CASE repl[k + 1] = "$" -> <<"$">>
            [] repl[k + 1] = "&" -> SubSeq(s, a, b)
            [] repl[k + 1] = BQ  -> SubSeq(s, 1, a - 1)
            [] repl[k + 1] = "'" -> SubSeq(s, b + 1, Len(s)))
         \o GetSubstitution(repl, k + 2, s, a, b)
    ELSE <<repl[k]>> \o GetSubstitution(repl, k + 1, s, a, b)

RECURSIVE RestoreForIndent(_, _, _)
\* stage 3: codeBlockPlaceholders.forEach((codeBlock, index) => result =
\* result.replace(token, codeBlock)): the first occurrence of the token only
RestoreForIndent(s, blocks, k) ==
    LET Put(token, repl, a) ==
            IF a = 0 THEN s
            ELSE SubSeq(s, 1, a - 1) \o GetSubstitution(repl, 1, s, a, a + Len(token) - 1)
                 \o From(s, a + Len(token))
        ReplaceFirst(token, repl) == Put(token, repl, IndexOf(s, token, 1))
    IN  IF k > Len(blocks) THEN s
        ELSE RestoreForIndent(ReplaceFirst(PlaceholderToken(k - 1), blocks[k]), blocks, k + 1)

\* stage 4: fenced code (backticks) -> prefix + ___CODE_BLOCK_n___
ProtectFenced(s) ==
    LET Put(ms) ==
            [ text   |-> Splice(s, ms,
                            [k \in 1..Len(ms) |-> Grp(s, ms[k], 1) \o CodeBlockToken(k - 1)],
                            1, 1),
              blocks |-> [k \in 1..Len(ms) |-> SubSeq(s, ms[k].g[1][2] + 1, ms[k].to)] ]
    IN  Put(AllMatches([x \in 1..Len(s) |-> FenceMatch(s, x, {BQ})], Len(s), 1))

RECURSIVE InlineFold(_, _, _, _, _)
InlineFold(s, ms, k, at, blocks) ==
    IF k > Len(ms) THEN [text |-> SubSeq(s, at, Len(s)), blocks |-> blocks]
    ELSE LET w    == Whole(s, ms[k])
             skip == Includes(w, CodeBlockPrefix)
             rest == InlineFold(s, ms, k + 1, ms[k].to + 1,
                                IF skip THEN blocks ELSE Append(blocks, w))
         IN  [ text   |-> SubSeq(s, at, ms[k].from - 1)
                          \o (IF skip THEN w ELSE CodeBlockToken(Len(blocks)))
                          \o rest.text,
               blocks |-> rest.blocks ]

\* stage 5: inline code -> ___CODE_BLOCK_n___, unless the match holds a token.
\* The regular expression is (`+)([^`\n]+?)\1.  A shortened opening run would
\* leave a backtick as the first character of the content, which [^`\n]
\* refuses, so the opening run is the whole run i..o-1; the content stops at the
\* next backtick e, and the run found there must be at least as long as the
\* opening one.
ProtectInline(s, blocks) ==
    LET Span(i, o, e) ==
            IF e > o /\ e <= Len(s) /\ s[e] = BQ /\ RunEnd(s, e, BQ) - e >= o - i
            THEN Hit(i, e + (o - i) - 1, << <<i, o - 1>>, <<o, e - 1>> >>)
            ELSE NoMatch
        Opened(i, o) == Span(i, o, NotInEnd(s, o, {BQ, "\n"}))
        InlineCodeMatch(i) == IF s[i] # BQ THEN NoMatch ELSE Opened(i, RunEnd(s, i, BQ))
    IN  InlineFold(s, AllMatches([x \in 1..Len(s) |-> InlineCodeMatch(x)], Len(s), 1),
                   1, 1, blocks)

\* text.replace(/___CODE_BLOCK_(\d+)___/g, (match, id) => codeBlocks[parseInt(id)])
RestoreCode(s, blocks) ==
    LET Token(i, d, e) ==
            IF e > d /\ MatchAt(s, e, Chars("___")) THEN Hit(i, e + 2, << <<d, e - 1>> >>)
            ELSE NoMatch
        Digits1(i, d) == Token(i, d, DigitEnd(s, d))
        CodeTokenMatch(i) ==
            IF ~MatchAt(s, i, CodeBlockPrefix) THEN NoMatch
            ELSE Digits1(i, i + Len(CodeBlockPrefix))
        At(n)   == IF n < Len(blocks) THEN blocks[n + 1] ELSE Undefined
        Put(ms) == Splice(s, ms, [k \in 1..Len(ms) |-> At(ParseInt(Grp(s, ms[k], 1)))], 1, 1)
    IN  Put(AllMatches([x \in 1..Len(s) |-> CodeTokenMatch(x)], Len(s), 1))

DivClose == Chars("\"></div>")

\* stage 6: :::chart
ExtractChart(s) ==
    LET \* try { ... } catch (e) { return match; }
        Tried(m, encodedData) ==
            IF Threw(encodedData) THEN Whole(s, m)
            ELSE Chars("<div data-chart-type=\"echarts\" data-chart-data=\"")
                 \o encodedData \o DivClose
        ChartCarrier(m) == Tried(m, encodeURIComponent(Trim(Grp(s, m, 1))))
        Put(ms) == Splice(s, ms, [k \in 1..Len(ms) |-> ChartCarrier(ms[k])], 1, 1)
    IN  Put(HeadBodyMatches(s, Chars(":::chart"), NlFence3))

\* stages 7 and 8: :::video{...}, multi-line then single-line
ExtractVideo(s, re) ==
    LET Video(m, cleanUrl) ==
            IF cleanUrl = <<>> THEN Whole(s, m)
            ELSE Chars("<div ") \o buildVideoAttrs(cleanUrl, parseVideoAttrs(Grp(s, m, 1)))
                 \o Chars(" class=\"video-block\"></div>")
        VideoCarrier(m) == Video(m, Trim(Grp(s, m, 2)))
        Put(ms) == Splice(s, ms, [k \in 1..Len(ms) |-> VideoCarrier(ms[k])], 1, 1)
    IN  Put(AllMatches([x \in 1..Len(s) |->
                           IF re = "multi" THEN AttrBlockMatch(s, x, Chars(":::video{"))
                           ELSE AttrInlineMatch(s, x, Chars(":::video{"))], Len(s), 1))

\* stages 9 and 10: :::alert{...}, multi-line then single-line
ExtractAlert(s, re) ==
    LET Alert(m, a, cleanContent) ==
            IF cleanContent = <<>> THEN Whole(s, m)
            ELSE buildAlertHtml(a.normalizedType, a.title, cleanContent)
        AlertCarrier(m) == Alert(m, parseAlertAttrs(Grp(s, m, 1)), Trim(Grp(s, m, 2)))
        Put(ms) == Splice(s, ms, [k \in 1..Len(ms) |-> AlertCarrier(ms[k])], 1, 1)
    IN  Put(AllMatches([x \in 1..Len(s) |->
                           IF re = "multi" THEN AttrBlockMatch(s, x, Chars(":::alert{"))
                           ELSE AttrInlineMatch(s, x, Chars(":::alert{"))], Len(s), 1))

\* stages 11-13: ==text==, ^text^, ~text~ replaced by '<TAG>$1</TAG>'
RewriteDelimited(s, re, tag) ==
    LET \* /==([^=]+)==/ and /\^([^^]+)\^/ : DELIM([^c]+)DELIM tried at index i
        Delimited(i, delim, a, e) ==
            IF e > a /\ MatchAt(s, e, delim) THEN Hit(i, e + Len(delim) - 1, << <<a, e - 1>> >>)
            ELSE NoMatch
        DelimitedMatch(i, delim, c) ==
            IF ~MatchAt(s, i, delim) THEN NoMatch
            ELSE Delimited(i, delim, i + Len(delim), NotInEnd(s, i + Len(delim), {c}))
        \* /(?<!~)~([^~\n]+)~(?!~)/ tried at index i
        Subscript(i, e) ==
            IF e > i + 1 /\ e <= Len(s) /\ s[e] = "~" /\ ~(e + 1 <= Len(s) /\ s[e + 1] = "~")
            THEN Hit(i, e, << <<i + 1, e - 1>> >>)
            ELSE NoMatch
        SubscriptMatch(i) ==
            IF s[i] # "~" \/ (i > 1 /\ s[i - 1] = "~") THEN NoMatch
            ELSE Subscript(i, NotInEnd(s, i + 1, {"~", "\n"}))
        Wrap(body) == Chars("<") \o tag \o Chars(">") \o body \o Chars("</") \o tag \o Chars(">")
        Put(ms)    == Splice(s, ms, [k \in 1..Len(ms) |-> Wrap(Grp(s, ms[k], 1))], 1, 1)
    IN  Put(AllMatches([x \in 1..Len(s) |->
                           CASE re = "highlight" -> DelimitedMatch(x, Chars("=="), "=")
                             [] re = "sup"       -> DelimitedMatch(x, Chars("^"), "^")
                             [] re = "sub"       -> SubscriptMatch(x)], Len(s), 1))

\* stage 14: ![alt](url){attrs}, /!\[([^\]]*)\]\(([^)]+)\)\s*\{([^}]+)\}/g
RewriteImages(s) ==
    LET Html(alt, url, align, width, caption) ==
            Chars("<img src=\"") \o url \o Chars("\" alt=\"") \o EscapeQuotes(alt)
            \o Chars("\" ")
            \o Chars("data-image-align=\"") \o align \o Chars("\"")
            \o (IF width # <<>>
                THEN Chars(" data-image-width=\"") \o width \o Chars("\"") ELSE <<>>)
            \o (IF caption # <<>>
                THEN Chars(" data-image-caption=\"") \o EscapeQuotes(caption) \o Chars("\"")
                ELSE <<>>)
            \o Chars(" />")
        Parsed(alt, url, attrs, alignMatch, widthMatch) ==
            Html(alt, url,
                 IF alignMatch.found THEN LowerCase(alignMatch.val) ELSE Chars("center"),
                 IF widthMatch.found THEN Trim(widthMatch.val) ELSE <<>>,
                 ParseCaption(attrs, {Chars("align"), Chars("width")}))
        Image(alt, url, attrs) ==
            Parsed(alt, url, attrs, WordAttr(attrs, 1, Chars("align:")),
                   FreeAttr(attrs, 1, Chars("width:"), {}, {",", "}"}))
        ImageHtml(m) == Image(Grp(s, m, 1), Grp(s, m, 2), Grp(s, m, 3))
        ImageMatch(i) == IF s[i] = "!" THEN BracketAttrMatch(s, i, i + 1, 0) ELSE NoMatch
        Put(ms) == Splice(s, ms, [k \in 1..Len(ms) |-> ImageHtml(ms[k])], 1, 1)
    IN  Put(AllMatches([x \in 1..Len(s) |-> ImageMatch(x)], Len(s), 1))

\* stage 15: [text](url "title"), /\[([^\]]+)\]\(([^)]+?)\s+"([^"]+)"\)/g.  With the
\* url starting at t + 2, the lazy url grows one character at a time (never
\* over a ")") until white space q..r-1, a quoted title and the closing
\* parenthesis follow it.
RewriteTitledLinks(s) ==
    LET Quote(q, r, e)  ==
            /\ r > q /\ r <= Len(s) /\ s[r] = "\""
            /\ e > r + 1 /\ MatchAt(s, e, Chars("\")"))
        Titled(q)       == Quote(q, SpaceEnd(s, q), NotInEnd(s, SpaceEnd(s, q) + 1, {"\""}))
        Found(i, t, q, r) ==
            Hit(i, NotInEnd(s, r + 1, {"\""}) + 1,
                << <<i + 1, t - 1>>, <<t + 2, q - 1>>, <<r + 1, NotInEnd(s, r + 1, {"\""}) - 1>> >>)
        Url(i, t, q)    ==
            IF q > Len(s) \/ s[q - 1] = ")" THEN NoMatch ELSE Found(i, t, q, SpaceEnd(s, q))
        Text(i, t)      ==
            IF t > i + 1 /\ MatchAt(s, t, Chars("](")) /\ t + 2 <= Len(s)
            THEN Url(i, t, FirstSuch({q \in (t + 3)..Len(s) : s[q - 1] = ")" \/ Titled(q)},
                                     t + 3, Len(s)))
            ELSE NoMatch
        TitledLinkMatch(i) == IF s[i] # "[" THEN NoMatch ELSE Text(i, NotInEnd(s, i + 1, {"]"}))
        TitledLinkHtml(m)  ==
            Chars("<a href=\"") \o Grp(s, m, 2) \o Chars("\" data-link-title=\"")
            \o EscapeApostrophes(EscapeQuotes(Grp(s, m, 3))) \o Chars("\">") \o Grp(s, m, 1)
            \o Chars("</a>")
        Put(ms) == Splice(s, ms, [k \in 1..Len(ms) |-> TitledLinkHtml(ms[k])], 1, 1)
    IN  Put(AllMatches([x \in 1..Len(s) |-> TitledLinkMatch(x)], Len(s), 1))

\* stage 16: [text](url){icon}, /\[([^\]]+)\]\(([^)]+)\)\s*\{([^}]+)\}/g replaced by
\* '<a href="$2" data-icon="$3">$1</a>'
RewriteIconLinks(s) ==
    LET IconLinkHtml(m) ==
            Chars("<a href=\"") \o Grp(s, m, 2) \o Chars("\" data-icon=\"") \o Grp(s, m, 3)
            \o Chars("\">") \o Grp(s, m, 1) \o Chars("</a>")
        Put(ms) == Splice(s, ms, [k \in 1..Len(ms) |-> IconLinkHtml(ms[k])], 1, 1)
    IN  Put(AllMatches([x \in 1..Len(s) |-> BracketAttrMatch(s, x, x, 1)], Len(s), 1))

\* the six rewrites with the link rules ahead of the image rule and the icon
\* rule ahead of the title rule
InlineRewritesLinksFirst(s) ==
    RewriteImages(RewriteTitledLinks(RewriteIconLinks(
        RewriteDelimited(RewriteDelimited(RewriteDelimited(s,
            "highlight", Chars("mark")), "sup", Chars("sup")), "sub", Chars("sub")))))

\* stages 11-16, in the order of the source
InlineRewrites(s) ==
    RewriteIconLinks(RewriteTitledLinks(RewriteImages(
        RewriteDelimited(RewriteDelimited(RewriteDelimited(s,
            "highlight", Chars("mark")), "sup", Chars("sup")), "sub", Chars("sub")))))

\* the text the chat callbacks encode; <<>> when they return the match unchanged
ChatBody(s, m, re) ==
    LET \* content.replace(/:::\s*$/, '')
        Cut(b, e) == IF e >= 3 /\ MatchAt(b, e - 2, Fence3) THEN SubSeq(b, 1, e - 3) ELSE b
        CutTrailingFence(b) == Cut(b, TrimEndIdx(b, Len(b)))
    IN  IF re = "chat1" THEN Trim(Grp(s, m, 1))
        ELSE IF Includes(Whole(s, m), Chars("data-chat=\"true\"")) THEN <<>>
        ELSE Trim(CutTrailingFence(Grp(s, m, 1)))

\* :::chat with the closing fence on its own line ("chat1") or anywhere ("chat2")
ExtractChat(s, re) ==
    LET Carrier(m, body) ==
            IF body = <<>> THEN Whole(s, m)
            ELSE Chars("<div data-chat=\"true\" data-chat-content=\"")
                 \o encodeURIComponent(body) \o DivClose
        ChatCarrier(m) == Carrier(m, ChatBody(s, m, re))
        Put(ms) == Splice(s, ms, [k \in 1..Len(ms) |-> ChatCarrier(ms[k])], 1, 1)
    IN  Put(HeadBodyMatches(s, Chars(":::chat"), IF re = "chat1" THEN NlFence3 ELSE Fence3))

RECURSIVE SplitMarkers(_, _, _)
\* content.split(/@WORD\s+([^\n\r]+)\r?\n/): the text before the first marker,
\* then for every marker its capture and the text up to the next marker.  After
\* the marker word at j, \s+ is a..q-1 and shrinks from the right until a
\* non-empty rest of line, ended by a line feed, starts at q.
SplitMarkers(s, word, i) ==
    LET Rest(k)    == SplitMarkers(s, word, k)
        Glue(j, r) == << SubSeq(s, i, j) \o r[1] >> \o Tail(r)
        LineEnd(q) == NotInEnd(s, q, {"\n"})
        Cut(j, a, q) ==
            IF q <= a THEN Glue(j, Rest(j + 1))
            ELSE << SubSeq(s, i, j - 1), SubSeq(s, q, LineEnd(q) - 1) >> \o Rest(LineEnd(q) + 1)
        Marker(j, a, q0) ==
            Cut(j, a, LastSuch({q \in (a + 1)..q0 : LineEnd(q) > q /\ LineEnd(q) <= Len(s)},
                               a + 1, q0))
        At(j) == IF j = 0 THEN << From(s, i) >>
                 ELSE Marker(j, j + Len(word), SpaceEnd(s, j + Len(word)))
    IN  At(IndexOf(s, word, i))

\* the (header, body) pairs of a tabs / timeline body: parts[i], parts[i+1] || ''
MarkerParts(body, word) ==
    LET Pairs(parts) ==
            [k \in 1..((Len(parts) - 1) \div 2) |->
                [head |-> Trim(parts[2 * k]), body |-> parts[2 * k + 1]]]
    IN  Pairs(SplitMarkers(body, word, 1))

\* :::tabs
ExtractTabs(s, blocks) ==
    LET Panes(ps) ==
            Concat([k \in 1..Len(ps) |->
                Chars("<div data-tab-label=\"") \o EscapeQuotes(ps[k].head)
                \o Chars("\" data-tab-content=\"")
                \o encodeURIComponent(RestoreCode(ps[k].body, blocks))
                \o DivClose \o <<"\n">>])
        TabsCarrier(body) ==
            Chars("<div data-tabs=\"true\">\n") \o Panes(MarkerParts(body, Chars("@tab")))
            \o Chars("</div>")
        Put(ms) == Splice(s, ms, [k \in 1..Len(ms) |-> TabsCarrier(Grp(s, ms[k], 1))], 1, 1)
    IN  Put(HeadBodyMatches(s, Chars(":::tabs"), Fence3))

\* the leftmost "|" splits the header; header.split('|') keeps the first two parts
TimelineHeader(header) ==
    LET bar  == IndexOf(header, <<"|">>, 1)
        bar2 == IndexOf(header, <<"|">>, bar + 1)
    IN  IF bar # 0
        THEN [ date  |-> Trim(SubSeq(header, 1, bar - 1)),
               title |-> Trim(SubSeq(header, bar + 1,
                                     IF bar2 = 0 THEN Len(header) ELSE bar2 - 1)) ]
        ELSE IF DigitEnd(header, 1) >= 5
        THEN [date |-> header, title |-> <<>>]
        ELSE [date |-> <<>>, title |-> header]

\* :::timeline
ExtractTimeline(s, blocks) ==
    LET Item(h, itemBody) ==
            Chars("<div data-timeline-date=\"") \o EscapeQuotes(h.date)
            \o Chars("\" data-timeline-title=\"") \o EscapeQuotes(h.title)
            \o Chars("\" data-timeline-content=\"")
            \o encodeURIComponent(RestoreCode(itemBody, blocks))
            \o DivClose \o <<"\n">>
        Items(ps) == Concat([k \in 1..Len(ps) |-> Item(TimelineHeader(ps[k].head), ps[k].body)])
        TimelineCarrier(body) ==
            Chars("<div data-timeline=\"true\">\n") \o Items(MarkerParts(body, Chars("@item")))
            \o Chars("</div>")
        Put(ms) == Splice(s, ms, [k \in 1..Len(ms) |-> TimelineCarrier(Grp(s, ms[k], 1))], 1, 1)
    IN  Put(HeadBodyMatches(s, Chars(":::timeline"), Fence3))

LinkCardAttr(attrs, key) ==
    LET m == FreeAttr(attrs, 1, key, {"'", "\""}, {",", "'", "\""})
    IN  IF m.found THEN Trim(m.val) ELSE <<>>

\* :::link-card{...}
ExtractLinkCard(s) ==
    LET Card(m, url, title, description, image) ==
            IF url = <<>> THEN Whole(s, m)
            ELSE Chars("<div data-link-card=\"true\" data-link-url=\"")
                 \o encodeURIComponent(url)
                 \o Chars("\" data-link-title=\"")
                 \o encodeURIComponent(IF title # <<>> THEN title ELSE Trim(Grp(s, m, 2)))
                 \o Chars("\" data-link-description=\"") \o encodeURIComponent(description)
                 \o Chars("\" data-link-image=\"") \o encodeURIComponent(image)
                 \o DivClose
        Attrs(m, attrs) ==
            Card(m, LinkCardAttr(attrs, Chars("url:")), LinkCardAttr(attrs, Chars("title:")),
                 LinkCardAttr(attrs, Chars("description:")), LinkCardAttr(attrs, Chars("image:")))
        LinkCardCarrier(m) == Attrs(m, Grp(s, m, 1))
        Put(ms) == Splice(s, ms, [k \in 1..Len(ms) |-> LinkCardCarrier(ms[k])], 1, 1)
    IN  Put(LinkCardMatches(s))

-----------------------------------------------------------------------------
(* The documents of the model *)

\* the longest document, counted in fragments
MaxFrags == 3

RECURSIVE DocsOf(_, _)
\* every concatenation of at most n fragments of F
DocsOf(F, n) ==
    IF n = 0 THEN {<<>>}
    ELSE DocsOf(F, n - 1) \cup {d \o f : d \in DocsOf(F, n - 1), f \in F}

Fence3BQ == <<BQ, BQ, BQ>>

-----------------------------------------------------------------------------
(* processContent as a state machine: one step per stage of the source *)

IdleParsers ==
    /\ lines = <<>> /\ idx = 0 /\ currentPerson = <<>> /\ currentContent = <<>>
    /\ messages = <<>> /\ inCodeBlock = FALSE /\ codeBlockFence = <<>>
    /\ numbers = <<>> /\ dom = <<>> /\ shown = <<>>

InitOn(docs) ==
    /\ content \in docs
    /\ text = content
    /\ pc = "start"
    /\ result = <<>>
    /\ codeBlockPlaceholders = <<>>
    /\ codeBlocks = <<>>
    /\ masked = <<>>
    /\ extracted = {}
    /\ pass = 1
    /\ firstOutput = <<>>
    /\ rendered = <<>>
    /\ IdleParsers
    /\ IdleTabs

ParserVars == << lines, idx, currentPerson, currentContent, messages, inCodeBlock,
                 codeBlockFence, numbers, dom, shown, TabsVars >>

\* if (!text || text.trim().length === 0) return text;
EarlyReturn ==
    /\ pc = "start"
    /\ IsBlank(text)
    /\ result' = text
    /\ pc' = "done"
    /\ UNCHANGED << content, text, codeBlockPlaceholders, codeBlocks, masked, extracted,
                    pass, firstOutput, rendered, ParserVars >>

Stage(from, to) ==
    /\ pc = from
    /\ pc' = to
    /\ UNCHANGED << content, text, pass, firstOutput, rendered, ParserVars >>

ProtectForIndentStep ==
    /\ Stage("start", "fixIndent")
    /\ ~IsBlank(text)
    /\ result' = ProtectForIndent(text).text
    /\ codeBlockPlaceholders' = ProtectForIndent(text).blocks
    /\ UNCHANGED << codeBlocks, masked, extracted >>

FixIndentStep ==
    /\ Stage("fixIndent", "restoreIndent")
    /\ result' = FixListIndentation(result)
    /\ UNCHANGED << codeBlockPlaceholders, codeBlocks, masked, extracted >>

RestoreForIndentStep ==
    /\ Stage("restoreIndent", "protect")
    /\ result' = RestoreForIndent(result, codeBlockPlaceholders, 1)
    /\ UNCHANGED << codeBlockPlaceholders, codeBlocks, masked, extracted >>

\* protect(d): fenced code, then inline code
Protect(s) ==
    LET Then(fenced) == ProtectInline(fenced.text, fenced.blocks)
    IN  Then(ProtectFenced(s))

ProtectStep ==
    /\ Stage("protect", "chart")
    /\ result' = Protect(result).text
    /\ codeBlocks' = Protect(result).blocks
    /\ masked' = result'
    /\ UNCHANGED << codeBlockPlaceholders, extracted >>

\* the bodies a block extractor captures from s, with their code restored
Bodies(kind, bodies, blocks) ==
    {[kind |-> kind, body |-> RestoreCode(bodies[k], blocks)] : k \in 1..Len(bodies)}

ChartStep ==
    /\ Stage("chart", "video")
    /\ result' = ExtractChart(result)
    /\ extracted' = extracted \cup
          LET Of(ms) ==
                  Bodies("chart", [k \in 1..Len(ms) |-> Trim(Grp(result, ms[k], 1))],
                         codeBlocks)
          IN  Of(HeadBodyMatches(result, Chars(":::chart"), NlFence3))
    /\ UNCHANGED << codeBlockPlaceholders, codeBlocks, masked >>

VideoStep ==
    /\ Stage("video", "alert")
    /\ result' = ExtractVideo(ExtractVideo(result, "multi"), "single")
    /\ UNCHANGED << codeBlockPlaceholders, codeBlocks, masked, extracted >>

AlertStep ==
    /\ Stage("alert", "inline")
    /\ result' = ExtractAlert(ExtractAlert(result, "multi"), "single")
    /\ UNCHANGED << codeBlockPlaceholders, codeBlocks, masked, extracted >>

InlineStep ==
    /\ Stage("inline", "chat")
    /\ result' = InlineRewrites(result)
    /\ UNCHANGED << codeBlockPlaceholders, codeBlocks, masked, extracted >>

\* the bodies the two chat passes encode
ChatBodies(s, blocks) ==
    LET Of(t, re, ms) == Bodies("chat", [k \in 1..Len(ms) |-> ChatBody(t, ms[k], re)], blocks)
        In(t, re)     ==
            Of(t, re, HeadBodyMatches(t, Chars(":::chat"),
                                      IF re = "chat1" THEN NlFence3 ELSE Fence3))
    IN  {b \in In(s, "chat1") \cup In(ExtractChat(s, "chat1"), "chat2") : b.body # <<>>}

\* a stage whose callbacks call encodeURIComponent outside any try: `out` is the
\* text it builds; when a call throws, processContent throws
Encoding(from, to, out, bodies) ==
    /\ Stage(from, IF Threw(out) THEN "thrown" ELSE to)
    /\ result' = IF Threw(out) THEN result ELSE out
    /\ extracted' = IF Threw(out) THEN extracted ELSE extracted \cup bodies
    /\ UNCHANGED << codeBlockPlaceholders, codeBlocks, masked >>

ChatStep(from, to) ==
    Encoding(from, to, ExtractChat(ExtractChat(result, "chat1"), "chat2"),
             ChatBodies(result, codeBlocks))

FirstChatStep == ChatStep("chat", "tabs")

PartBodies(kind, head, word, s, blocks) ==
    LET Of(ps)  == Bodies(kind, [j \in 1..Len(ps) |-> ps[j].body], blocks)
        All(ms) == UNION { Of(MarkerParts(Grp(s, ms[k], 1), word)) : k \in 1..Len(ms) }
    IN  All(HeadBodyMatches(s, head, Fence3))

TabsStep ==
    Encoding("tabs", "linkCard", ExtractTabs(result, codeBlocks),
             PartBodies("tab", Chars(":::tabs"), Chars("@tab"), result, codeBlocks))

LinkCardStep == Encoding("linkCard", "chatAgain", ExtractLinkCard(result), {})

SecondChatStep == ChatStep("chatAgain", "timeline")

TimelineStep ==
    Encoding("timeline", "restore", ExtractTimeline(result, codeBlocks),
             PartBodies("item", Chars(":::timeline"), Chars("@item"), result, codeBlocks))

RestoreStep ==
    /\ Stage("restore", "done")
    /\ result' = RestoreCode(result, codeBlocks)
    /\ UNCHANGED << codeBlockPlaceholders, codeBlocks, masked, extracted >>

\* processContent(processContent(d)): the output is handed to a second call
Reprocess ==
    /\ pc = "done"
    /\ pass = 1
    /\ pass' = 2
    /\ firstOutput' = result
    /\ text' = result
    /\ pc' = "start"
    /\ result' = <<>>
    /\ codeBlockPlaceholders' = <<>>
    /\ codeBlocks' = <<>>
    /\ masked' = <<>>
    /\ extracted' = {}
    /\ UNCHANGED << content, rendered, ParserVars >>

-----------------------------------------------------------------------------
(* Rendering: the carrier elements of the processed text and their dispatch *)

\* the attribute value the HTML parser hands over: character references decoded
Unescape(v) ==
    LET HtmlEntities ==
            << <<Chars("&quot;"), "\"">>, <<Chars("&#39;"), "'">>, <<Chars("&amp;"), "&">>,
               <<Chars("&lt;"), "<">>, <<Chars("&gt;"), ">">> >>
        \* the entity of HtmlEntities written at index i of v, 0 when there is none
        EntityAt(i) ==
            IF i >= 1 /\ \E e \in 1..Len(HtmlEntities) : MatchAt(v, i, HtmlEntities[e][1])
            THEN CHOOSE e \in 1..Len(HtmlEntities) : MatchAt(v, i, HtmlEntities[e][1])
            ELSE 0
    IN  Concat([i \in 1..Len(v) |->
            IF EntityAt(i) # 0 THEN <<HtmlEntities[EntityAt(i)][2]>>
            ELSE IF \E j \in 1..5 :
                        /\ EntityAt(i - j) # 0
                        /\ j < Len(HtmlEntities[EntityAt(i - j)][1])
                 THEN <<>>
                 ELSE <<v[i]>>])

RECURSIVE TagAttrs(_, _, _)
\* the attributes of a start tag read from index i on: [to |-> index of the
\* closing >, props |-> <<name, value>> pairs]; to = 0 when the text ends
\* inside the tag, which then makes no element
TagAttrs(s, i, props) ==
    LET a == SpaceEnd(s, i)
    IN  IF a > Len(s) THEN [to |-> 0, props |-> <<>>]
        ELSE IF s[a] = ">" THEN [to |-> a, props |-> props]
        ELSE IF s[a] = "/" THEN TagAttrs(s, a + 1, props)
        ELSE LET n    == NotInEnd(s, a + 1, {" ", "\n", "\t", "/", ">", "="})
                 name == SubSeq(s, a, n - 1)
                 e    == SpaceEnd(s, n)
             IN  IF e > Len(s) \/ s[e] # "="
                 THEN TagAttrs(s, n, Append(props, <<name, <<>> >>))
                 ELSE LET v == SpaceEnd(s, e + 1)
                      IN  IF v > Len(s) THEN [to |-> 0, props |-> <<>>]
                          ELSE IF s[v] \in {"\"", "'"}
                          THEN LET q == IndexOf(s, <<s[v]>>, v + 1)
                               IN  IF q = 0 THEN [to |-> 0, props |-> <<>>]
                                   ELSE TagAttrs(s, q + 1,
                                          Append(props,
                                            <<name, Unescape(SubSeq(s, v + 1, q - 1))>>))
                          ELSE LET u == NotInEnd(s, v, {" ", "\n", "\t", ">"})
                               IN  TagAttrs(s, u,
                                     Append(props, <<name, Unescape(SubSeq(s, v, u - 1))>>))

RECURSIVE DivTags(_, _)
\* the property lists of the div elements of s, in document order
DivTags(s, i) ==
    LET \* the div start tag at index k; to = 0 when index k starts none
        DivTagAt(k) ==
            IF /\ MatchAt(s, k, Chars("<div")) /\ k + 4 <= Len(s)
               /\ s[k + 4] \in {" ", "\n", "\t", ">"}
            THEN TagAttrs(s, k + 4, <<>>)
            ELSE [to |-> 0, props |-> <<>>]
        Then(tag) == <<tag.props>> \o DivTags(s, tag.to + 1)
        Take(j)   == IF j > Len(s) THEN <<>> ELSE Then(DivTagAt(j))
    IN  Take(FirstSuch({k \in i..Len(s) : DivTagAt(k).to # 0}, i, Len(s)))

\* props[name] || '': the first attribute of that name
Prop(props, name) ==
    IF \E k \in 1..Len(props) : props[k][1] = name
    THEN props[CHOOSE k \in 1..Len(props) :
                 props[k][1] = name /\ \A j \in 1..(k - 1) : props[j][1] # name][2]
    ELSE <<>>

-----------------------------------------------------------------------------
(* JSON.parse as a recogniser: the index after the value read, 0 for a syntax error *)

JsonSpace(s, i) == FirstSuch({k \in i..Len(s) : s[k] \notin {" ", "\n", "\t"}}, i, Len(s))

\* a string literal starting at the quote i: escapes \" \\ \/ \n \t are read, a
\* raw line feed or tab is a syntax error
RECURSIVE JsonString(_, _)
JsonString(s, i) ==
    IF i > Len(s) THEN 0
    ELSE IF s[i] = "\"" THEN i + 1
    ELSE IF s[i] \in {"\n", "\t"} THEN 0
    ELSE IF s[i] = "\\"
    THEN IF i + 1 <= Len(s) /\ s[i + 1] \in {"\"", "\\", "/", "n", "t", "b", "f", "r"}
         THEN JsonString(s, i + 2)
         ELSE 0
    ELSE JsonString(s, i + 1)

RECURSIVE JsonValue(_, _)
RECURSIVE JsonMembers(_, _, _)
\* the members of an object (keyed) or the elements of an array, from the first
\* one at index i up to the closing bracket
JsonMembers(s, i, keyed) ==
    LET k == IF ~keyed THEN i
             ELSE IF i <= Len(s) /\ s[i] = "\""
             THEN LET e == JsonString(s, i + 1)
                      c == IF e = 0 THEN 0 ELSE JsonSpace(s, e)
                  IN  IF c # 0 /\ c <= Len(s) /\ s[c] = ":" THEN c + 1 ELSE 0
             ELSE 0
        v == IF k = 0 THEN 0 ELSE JsonValue(s, k)
    IN  IF v = 0 \/ v > Len(s) THEN 0
        ELSE IF s[v] = (IF keyed THEN "}" ELSE "]") THEN v + 1
        ELSE IF s[v] = "," THEN JsonMembers(s, JsonSpace(s, v + 1), keyed)
        ELSE 0

\* a value with the white space around it
JsonValue(s, i) ==
    LET \* -?(0|[1-9]\d*)(\.\d+)? with the digits starting at a
        Number(a, b, c) == IF b = a \/ (s[a] = "0" /\ b > a + 1) \/ (c = b + 1) THEN 0 ELSE c
        Fraction(a, b)  ==
            Number(a, b, IF b <= Len(s) /\ s[b] = "." THEN DigitEnd(s, b + 1) ELSE b)
        Digits1(a)      == Fraction(a, DigitEnd(s, a))
        JsonNumber(k)   == Digits1(IF k <= Len(s) /\ s[k] = "-" THEN k + 1 ELSE k)
        Bracket(a, b)   ==
            IF b <= Len(s) /\ s[b] = (IF s[a] = "{" THEN "}" ELSE "]")
            THEN b + 1
            ELSE JsonMembers(s, b, s[a] = "{")
        Read(a) ==
            IF a > Len(s) THEN 0
            ELSE IF s[a] \in {"{", "["} THEN Bracket(a, JsonSpace(s, a + 1))
            ELSE IF s[a] = "\"" THEN JsonString(s, a + 1)
            ELSE IF MatchAt(s, a, Chars("true")) THEN a + 4
            ELSE IF MatchAt(s, a, Chars("false")) THEN a + 5
            ELSE IF MatchAt(s, a, Chars("null")) THEN a + 4
            ELSE JsonNumber(a)
        After(e) == IF e = 0 THEN 0 ELSE JsonSpace(s, e)
    IN  After(Read(JsonSpace(s, i)))

\* JSON.parse(s) returns (TRUE) or throws SyntaxError (FALSE)
JsonParses(s) == JsonValue(s, 1) = Len(s) + 1

-----------------------------------------------------------------------------
(* markdownComponents.div and the Tabs children *)

\* what one div element renders as: kind names the presentation, decoded tells
\* whether decodeURIComponent returned, payload is what it returned, type and
\* title are the Alert's props (type also holds the text of an error element)
Presentation(kind, decoded, payload, type, title) ==
    [kind |-> kind, decoded |-> decoded, payload |-> payload, type |-> type,
     title |-> title]

Plain(kind) == Presentation(kind, FALSE, <<>>, <<>>, <<>>)

ChartDispatch(chartType, dataStr) ==
    LET ErrorElement(message, decoded, payload) ==
            Presentation("error", decoded, payload, Chars(message), <<>>)
        Decoded(d) ==
            IF ~d.ok THEN ErrorElement("Error rendering chart", FALSE, <<>>)
            ELSE IF ~JsonParses(d.val)
            THEN ErrorElement("Chart data must be valid JSON", TRUE, d.val)
            ELSE IF chartType = Chars("echarts")
            THEN Presentation("echarts", TRUE, d.val, <<>>, <<>>)
            ELSE Presentation("error", TRUE, d.val,
                              Chars("Unknown chart type: ") \o chartType, <<>>)
    IN  IF dataStr = <<>> THEN Plain("null") ELSE Decoded(decodeURIComponent(dataStr))

AlertDispatch(alertType, title) ==
    Presentation("alert", FALSE, <<>>,
                 IF alertType \in validTypes THEN alertType ELSE DefaultAlertType, title)

\* classStr.match(/alert-(\w+)/): the word after the first "alert-" that has one
AlertClassType(classStr) ==
    LET Valid(type) == IF type \in validTypes THEN type ELSE DefaultAlertType
        Word(j)     == IF j > Len(classStr) THEN DefaultAlertType
                       ELSE SubSeq(classStr, j + 6, WordEnd(classStr, j + 6) - 1)
    IN  Valid(Word(FirstSuch({k \in 1..Len(classStr) :
                                 /\ MatchAt(classStr, k, Chars("alert-"))
                                 /\ WordEnd(classStr, k + 6) > k + 6}, 1, Len(classStr))))

\* the video branch: a <video> with the url, inside a <figure> when captioned
VideoDispatch(props) ==
    Presentation("video", FALSE, Prop(props, Chars("data-video-url")),
                 IF Prop(props, Chars("data-video-align")) = <<>> THEN Chars("center")
                 ELSE Prop(props, Chars("data-video-align")),
                 Prop(props, Chars("data-video-caption")))

ChatDispatch(chatContent) ==
    LET Decoded(d) ==
            IF d.ok THEN Presentation("chat", TRUE, d.val, <<>>, <<>>) ELSE Plain("null")
    IN  IF chatContent = <<>> THEN Plain("null") ELSE Decoded(decodeURIComponent(chatContent))

LinkCardDispatch(props) ==
    LET Decoded(url, title, desc, image) ==
            IF url.ok /\ title.ok /\ desc.ok /\ image.ok
            THEN Presentation("linkCard", TRUE, url.val, <<>>, title.val)
            ELSE Plain("null")
    IN  Decoded(decodeURIComponent(Prop(props, Chars("data-link-url"))),
                decodeURIComponent(Prop(props, Chars("data-link-title"))),
                decodeURIComponent(Prop(props, Chars("data-link-description"))),
                decodeURIComponent(Prop(props, Chars("data-link-image"))))

\* the useMemo of Tabs on one child: its pane content is the decoded
\* data-tab-content, the child's own children when decoding throws
TabChild(props) ==
    LET Pane(label, data, d) ==
            IF data # <<>> /\ d.ok THEN Presentation("tab", TRUE, d.val, <<>>, label)
            ELSE Presentation("tab", FALSE, <<>>, <<>>, label)
        Labelled(label, data) == Pane(label, data, decodeURIComponent(data))
    IN  Labelled(IF Prop(props, Chars("data-tab-label")) = <<>> THEN Chars("Tab")
                 ELSE Prop(props, Chars("data-tab-label")),
                 Prop(props, Chars("data-tab-content")))

\* the div component: the first of its branches that applies; a div that is
\* none of the carriers is the child of a Tabs when it carries tab attributes
DivDispatch(props) ==
    LET IsTrue(v) == v = Chars("true")
    IN  IF Prop(props, Chars("data-chart-type")) # <<>>
        THEN ChartDispatch(Prop(props, Chars("data-chart-type")),
                           Prop(props, Chars("data-chart-data")))
        ELSE IF Prop(props, Chars("data-alert-type")) # <<>>
        THEN AlertDispatch(Prop(props, Chars("data-alert-type")),
                           Prop(props, Chars("data-alert-title")))
        ELSE IF Includes(Prop(props, Chars("class")), Chars("alert-block"))
        THEN Presentation("alert", FALSE, <<>>,
                          AlertClassType(Prop(props, Chars("class"))), <<>>)
        ELSE IF Prop(props, Chars("data-video-url")) # <<>> THEN VideoDispatch(props)
        ELSE IF IsTrue(Prop(props, Chars("data-tabs"))) THEN Plain("tabs")
        ELSE IF IsTrue(Prop(props, Chars("data-timeline"))) THEN Plain("timeline")
        ELSE IF IsTrue(Prop(props, Chars("data-chat")))
        THEN ChatDispatch(Prop(props, Chars("data-chat-content")))
        ELSE IF IsTrue(Prop(props, Chars("data-link-card"))) THEN LinkCardDispatch(props)
        ELSE IF \E k \in 1..Len(props) :
                    props[k][1] \in {Chars("data-tab-label"), Chars("data-tab-content")}
        THEN TabChild(props)
        ELSE Plain("div")

\* <Markdown>{processedContent}</Markdown>: every div element of the processed
\* text goes through the div component, in document order
Render(s) ==
    LET Of(tags) == [k \in 1..Len(tags) |-> DivDispatch(tags[k])]
    IN  Of(DivTags(s, 1))

Dispatch ==
    /\ pc = "done"
    /\ pass = 1
    /\ pc' = "rendered"
    /\ rendered' = Render(result)
    /\ UNCHANGED << content, text, result, codeBlockPlaceholders, codeBlocks, masked,
                    extracted, pass, firstOutput, ParserVars >>

-----------------------------------------------------------------------------
(* The renderer: processContent, a second call on its output, the dispatch *)

ProcessNext ==
    \/ EarlyReturn
    \/ ProtectForIndentStep
    \/ FixIndentStep
    \/ RestoreForIndentStep
    \/ ProtectStep
    \/ ChartStep
    \/ VideoStep
    \/ AlertStep
    \/ InlineStep
    \/ FirstChatStep
    \/ TabsStep
    \/ LinkCardStep
    \/ SecondChatStep
    \/ TimelineStep
    \/ RestoreStep
    \/ Reprocess
    \/ Dispatch

\* code spans, fenced code, rewritable text around them and a literal placeholder
InitSpans ==
    InitOn(DocsOf(
        { Fence3BQ \o <<"\n">>, <<"\n">> \o Fence3BQ, Chars("~~~\n"), Chars("\n~~~"),
          <<BQ>>, Chars("==a=="), Chars("___CODE_BLOCK_0___"), Chars("b ") },
        MaxFrags))

SpecSpans == InitSpans /\ [][ProcessNext]_vars

(***************************************************************************)
(* Span protection and restoration                                         *)
(***************************************************************************)

\* C1: for every document, protecting the code spans (fenced backtick blocks,
\* then inline code) and restoring them with no rewriting in between gives
\* back exactly the text that was protected.
C1_RoundTrip ==
    [][ProtectStep => RestoreCode(result', codeBlocks') = result]_vars

InitFences ==
    InitOn(DocsOf(
        { Chars("~~~\n"), Chars("\n~~~"), Fence3BQ \o <<"\n">>, <<"\n">> \o Fence3BQ,
          <<BQ>>, Chars("==a=="), Chars("^b^"), Chars("$$") },
        MaxFrags))

SpecFences == InitFences /\ [][ProcessNext]_vars

\* C2: text inside a fenced code block (three or more backticks or tildes, as
\* the first protection pass recognises them) or inside an inline code span
\* is in the output of processContent character for character.
C2_CodeUntouched ==
    (pc = "done" /\ pass = 1) =>
        /\ \A k \in 1..Len(codeBlockPlaceholders) : Includes(result, codeBlockPlaceholders[k])
        /\ \A k \in 1..Len(codeBlocks) : Includes(result, codeBlocks[k])

(***************************************************************************)
(* processContent applied to its own output                                *)
(***************************************************************************)

InitIdem ==
    InitOn(DocsOf(
        { Fence3BQ \o <<"\n">>, <<"\n">> \o Fence3BQ, Chars("$$$$"),
          Chars("["), Chars("[x](u){i}"), Chars("](v \"t\")"),
          Chars(":::alert{}"), Chars(":::chat\nx\n:::"), Chars(" b:::") },
        MaxFrags))

SpecIdem == InitIdem /\ [][ProcessNext]_vars

\* C3: processContent is idempotent: the second call, applied to the output of
\* the first, returns that output unchanged.
C3_Idempotent ==
    (pc = "done" /\ pass = 2) => result = firstOutput

(***************************************************************************)
(* Payloads: extraction, transit in an attribute, decoding at dispatch     *)
(***************************************************************************)

InitPayload ==
    InitOn(DocsOf(
        { Chars(":::chat\n"), Chars(":::tabs\n@tab T\n"), Chars(":::chart\n"),
          Chars(":::timeline\n@item 2024\n"), Chars("\n:::"),
          Chars("\"a\", é"), <<BQ, "x", BQ>>, <<BQ, "1", "%", BQ>> },
        MaxFrags))

SpecPayload == InitPayload /\ [][ProcessNext]_vars

\* the presentations that show the payload of an extracted body of each kind
ShownAs(kind) ==
    CASE kind = "chat"  -> {"chat"}
      [] kind = "tab"   -> {"tab"}
      [] kind = "chart" -> {"echarts", "error"}
      [] OTHER          -> {}

\* C4: every non-empty chat, tab and chart body that processContent extracted
\* is decoded without error at dispatch, and the decoded text is the extracted
\* body with its code spans restored (the decoding of timeline items is not in
\* Tabs.tsx).
C4_PayloadRoundTrip ==
    pc = "rendered" =>
        \A e \in extracted :
            (e.kind \in {"chat", "tab", "chart"} /\ e.body # <<>>) =>
                \E k \in 1..Len(rendered) :
                    /\ rendered[k].kind \in ShownAs(e.kind)
                    /\ rendered[k].decoded
                    /\ rendered[k].payload = e.body

(***************************************************************************)
(* Link cards without a url                                                *)
(***************************************************************************)

InitLinkCard ==
    InitOn(DocsOf(
        { Chars(":::link-card{title:X}"), Chars(":::link-card{url:u, title:X}"),
          Chars("body"), Chars("==b=="), Chars(":::"), Chars("\n"),
          <<" ", BQ, "c", BQ, " ">> },
        MaxFrags))

SpecLinkCard == InitLinkCard /\ [][ProcessNext]_vars

\* the link-card blocks of the document that have no url attribute
UrlLessCards(s) ==
    LET ms == LinkCardMatches(s)
    IN  {k \in 1..Len(ms) : LinkCardAttr(Grp(s, ms[k], 1), Chars("url")) = <<>>}

\* C8: a link-card block without a url attribute is in the output of
\* processContent as it was written (header, body and closing fence), and a
\* document whose link-card blocks all lack a url gets no link-card carrier.
C8_LinkCardAbort ==
    (pc = "done" /\ pass = 1) =>
        LET ms == LinkCardMatches(content)
        IN  /\ \A k \in UrlLessCards(content) : Includes(result, Whole(content, ms[k]))
            /\ UrlLessCards(content) = 1..Len(ms)
                   => ~Includes(result, Chars("data-link-card"))

(***************************************************************************)
(* Charts                                                                  *)
(***************************************************************************)

InitChart ==
    InitOn(DocsOf(
        { Chars("p\n"), Chars("\nq"), Chars("\n"),
          Chars(":::chart\n{\"a\":1}\n:::"), Chars(":::chart\n{a}\n:::"),
          Chars(":::chart\n\n:::") },
        MaxFrags))

SpecChart == InitChart /\ [][ProcessNext]_vars

\* C9: every chart block is extracted, the text before the first and after the
\* last chart block is output unchanged, and at dispatch a chart whose body is
\* not valid JSON is shown as an error element at its position.
C9_ChartLocal ==
    pc = "rendered" =>
        LET ms == HeadBodyMatches(content, Chars(":::chart"), NlFence3)
        IN  /\ Len(rendered) = Len(ms)
            /\ ms # <<>> =>
                  /\ MatchAt(result, 1, SubSeq(content, 1, ms[1].from - 1))
                  /\ LET rest == From(content, ms[Len(ms)].to + 1)
                     IN  MatchAt(result, Len(result) - Len(rest) + 1, rest)
            /\ \A k \in 1..Len(ms) :
                  /\ k <= Len(rendered)
                  /\ ~JsonParses(Trim(Grp(content, ms[k], 1)))
                        => rendered[k].kind = "error"

(***************************************************************************)
(* Alerts                                                                  *)
(***************************************************************************)

\* alert headers with the type and title the Alert is to be given
AlertHeads ==
    { [head |-> Chars(":::alert{}"), type |-> Chars("info"), title |-> <<>>],
      [head |-> Chars(":::alert{type:warning}"), type |-> Chars("warning"), title |-> <<>>],
      [head |-> Chars(":::alert{type:bogus}"), type |-> Chars("info"), title |-> <<>>],
      [head |-> Chars(":::alert{type:ERROR, title:T}"), type |-> Chars("error"),
       title |-> Chars("T")] }

AlertBodies == { Chars("content"), Chars("\ncontent\n") }

InitAlert ==
    InitOn(DocsOf({h.head : h \in AlertHeads} \cup AlertBodies \cup {Fence3}, MaxFrags))

SpecAlert == InitAlert /\ [][ProcessNext]_vars

\* the number of places of s where lit is written
CountOf(s, lit) == Cardinality({i \in 1..Len(s) : MatchAt(s, i, lit)})

Alerts(rs) == SelectSeq(rs, LAMBDA r : r.kind = "alert")

PipelineVars == << text, result, codeBlockPlaceholders, codeBlocks, masked, extracted,
                   pass, firstOutput, rendered >>

IdlePipeline ==
    /\ text = <<>> /\ result = <<>> /\ codeBlockPlaceholders = <<>> /\ codeBlocks = <<>>
    /\ masked = <<>> /\ extracted = {} /\ pass = 1 /\ firstOutput = <<>>
    /\ rendered = <<>>

AvatarBase == Chars("https://mc-heads.net/avatar/")

\* getMinecraftAvatar with the pattern /^[a-zA-Z0-9_]{1,16}$/
getMinecraftAvatarFromOneChar(username) ==
    IF Len(username) >= 1 /\ Len(username) <= 16
       /\ \A k \in 1..Len(username) : IsWord(username[k])
    THEN AvatarBase \o encodeURIComponent(username)
    ELSE <<>>

\* getMinecraftAvatar with the pattern /^[a-zA-Z0-9_]{3,}$/
getMinecraftAvatarAnyLength(username) ==
    IF Len(username) >= 3 /\ \A k \in 1..Len(username) : IsWord(username[k])
    THEN AvatarBase \o encodeURIComponent(username)
    ELSE <<>>

\* /^[a-zA-Z0-9_]{3,16}$/.test(username) ? the mc-heads URL : ''
getMinecraftAvatar(username) ==
    IF Len(username) >= 3 /\ Len(username) <= 16
       /\ \A k \in 1..Len(username) : IsWord(username[k])
    THEN AvatarBase \o encodeURIComponent(username)
    ELSE <<>>

\* line.match(/^@person\s+(.+)$/): the attribute text, trimmed
PersonMatch(line) ==
    LET b == SpaceEnd(line, 8)
    IN  IF ~MatchAt(line, 1, Chars("@person")) \/ b = 8 THEN NoAttr
        ELSE IF b <= Len(line) THEN [found |-> TRUE, val |-> Trim(From(line, b))]
        ELSE IF b > 9 THEN [found |-> TRUE, val |-> <<>>]
        ELSE NoAttr

\* the three patterns tried for the name, 'Unknown' when none matches
PersonName(attrs) ==
    LET \* /name:\s*([^,]+?)(?:\s*,\s*|$)/i tried at index i: the lazy value ends
        \* where only white space is left before the next comma, or at the end of
        \* the string
        NameUpToCommaAt(i) ==
            IF ~MatchAtCI(attrs, i, Chars("name:")) THEN NoAttr
            ELSE LET a == i + 5
                     b == SpaceEnd(attrs, a)
                     c == NotInEnd(attrs, b, {","})
                     e == IF c > Len(attrs) THEN c
                          ELSE LET t == LastSuch({k \in b..(c - 1) : ~IsSpace(attrs[k])},
                                                 b, c - 1) + 1
                               IN  IF t > b THEN t ELSE b + 1
                 IN  IF c > b THEN [found |-> TRUE, val |-> SubSeq(attrs, b, e - 1)]
                     ELSE IF b > a /\ b <= Len(attrs)
                     THEN [found |-> TRUE, val |-> <<attrs[b - 1]>>]
                     ELSE IF b > a THEN [found |-> TRUE, val |-> <<attrs[a]>>]
                     ELSE NoAttr
        \* /name:\s*(\S+)/i tried at index i
        NameWordAt(i) ==
            IF ~MatchAtCI(attrs, i, Chars("name:")) THEN NoAttr
            ELSE LET b == SpaceEnd(attrs, i + 5)
                     e == FirstSuch({k \in b..Len(attrs) : IsSpace(attrs[k])}, b, Len(attrs))
                 IN  IF e > b THEN [found |-> TRUE, val |-> SubSeq(attrs, b, e - 1)]
                     ELSE NoAttr
        \* attrs.match(re): the leftmost match, at[k] being what re finds at index k
        Leftmost(at) ==
            IF \E k \in 1..Len(attrs) : at[k].found
            THEN at[FirstSuch({k \in 1..Len(attrs) : at[k].found}, 1, Len(attrs))]
            ELSE NoAttr
        m1 == FreeAttr(attrs, 1, Chars("name:"), {"'", "\""}, {",", "'", "\""})
        m2 == Leftmost([k \in 1..Len(attrs) |-> NameUpToCommaAt(k)])
        m3 == Leftmost([k \in 1..Len(attrs) |-> NameWordAt(k)])
    IN  IF m1.found THEN Trim(m1.val)
        ELSE IF m2.found THEN Trim(m2.val)
        ELSE IF m3.found THEN Trim(m3.val)
        ELSE Chars("Unknown")

\* the person of a declaration line: avatar:minecraft is resolved through
\* getMinecraftAvatar and dropped when that returns ''
Person(attrs) ==
    LET name   == PersonName(attrs)
        m      == FreeAttr(attrs, 1, Chars("avatar:"), {"'", "\""}, {",", "'", "\""})
        avatar == IF m.found THEN Trim(m.val) ELSE <<>>
        url    == IF LowerCase(avatar) = Chars("minecraft") THEN getMinecraftAvatar(name)
                  ELSE avatar
    IN  [name |-> name, hasAvatar |-> url # <<>>, avatar |-> url]

\* messages.push({person, content}) when the trimmed content is not empty
Pushed(msgs, person, contentLines) ==
    IF Trim(JoinLines(contentLines)) # <<>>
    THEN Append(msgs, [name |-> person.name, hasAvatar |-> person.hasAvatar,
                       avatar |-> person.avatar,
                       content |-> Trim(JoinLines(contentLines))])
    ELSE msgs

ChatUnchanged ==
    UNCHANGED << content, PipelineVars, inCodeBlock, codeBlockFence, numbers, dom, shown,
                 TabsVars >>

\* if (!content || !content.trim()) return messages;
ChatEmpty ==
    /\ pc = "chatStart"
    /\ IsBlank(content)
    /\ pc' = "chatDone"
    /\ UNCHANGED << lines, idx, currentPerson, currentContent, messages >>
    /\ ChatUnchanged

\* content.split(/\r?\n/).map(line => line.replace(/\r$/, '').trimEnd())
ChatSplit ==
    /\ pc = "chatStart"
    /\ ~IsBlank(content)
    /\ lines' = [k \in 1..Len(SplitLines(content, 1)) |-> TrimEnd(SplitLines(content, 1)[k])]
    /\ idx' = 1
    /\ pc' = "chatLoop"
    /\ UNCHANGED << currentPerson, currentContent, messages >>
    /\ ChatUnchanged

\* a person declaration: the message collected so far is saved, the person read
ChatPerson ==
    /\ pc = "chatLoop"
    /\ idx <= Len(lines)
    /\ PersonMatch(lines[idx]).found
    /\ messages' = IF currentPerson # <<>>
                   THEN Pushed(messages, currentPerson[1], currentContent)
                   ELSE messages
    /\ currentContent' = IF currentPerson # <<>> THEN <<>> ELSE currentContent
    /\ currentPerson' = <<Person(PersonMatch(lines[idx]).val)>>
    /\ idx' = idx + 1
    /\ UNCHANGED << lines, pc >>
    /\ ChatUnchanged

\* a line of the current person's message (empty lines included)
ChatLine ==
    /\ pc = "chatLoop"
    /\ idx <= Len(lines)
    /\ ~PersonMatch(lines[idx]).found
    /\ currentPerson # <<>>
    /\ currentContent' = Append(currentContent, lines[idx])
    /\ idx' = idx + 1
    /\ UNCHANGED << lines, pc, currentPerson, messages >>
    /\ ChatUnchanged

\* a line before the first person declaration is dropped
ChatStray ==
    /\ pc = "chatLoop"
    /\ idx <= Len(lines)
    /\ ~PersonMatch(lines[idx]).found
    /\ currentPerson = <<>>
    /\ idx' = idx + 1
    /\ UNCHANGED << lines, pc, currentPerson, currentContent, messages >>
    /\ ChatUnchanged

\* after the loop: the last message
ChatFinish ==
    /\ pc = "chatLoop"
    /\ idx > Len(lines)
    /\ messages' = IF currentPerson # <<>> /\ currentContent # <<>>
                   THEN Pushed(messages, currentPerson[1], currentContent)
                   ELSE messages
    /\ pc' = "chatDone"
    /\ UNCHANGED << lines, idx, currentPerson, currentContent >>
    /\ ChatUnchanged

ChatNext ==
    \/ ChatEmpty
    \/ ChatSplit
    \/ ChatPerson
    \/ ChatLine
    \/ ChatStray
    \/ ChatFinish

MaxChatFrags == 4

\* person declarations with the person each stands for
PersonHeads ==
    { [head |-> Chars("@person name:A"), name |-> Chars("A"), hasAvatar |-> FALSE,
       avatar |-> <<>>],
      [head |-> Chars("@person name:B, avatar:minecraft"), name |-> Chars("B"),
       hasAvatar |-> FALSE, avatar |-> <<>>],
      [head |-> Chars("@person name:Bob, avatar:minecraft"), name |-> Chars("Bob"),
       hasAvatar |-> TRUE, avatar |-> Chars("https://mc-heads.net/avatar/Bob")],
      [head |-> Chars("@person name:\"Al\", avatar:'u'"), name |-> Chars("Al"),
       hasAvatar |-> TRUE, avatar |-> Chars("u")] }

InitChat ==
    /\ content \in DocsOf({h.head \o <<"\n">> : h \in PersonHeads}
                           \cup {Chars("hi\n"), Chars("yo")}, MaxChatFrags)
    /\ pc = "chatStart"
    /\ IdlePipeline
    /\ IdleParsers
    /\ IdleTabs

SpecChat == InitChat /\ [][ChatNext]_vars

ChatExample == Chars("@person name:A\nhi\n@person name:B, avatar:minecraft\nyo")

\* the declaration of PersonHeads written on a line
HeadOf(line) == CHOOSE h \in PersonHeads : h.head = TrimEnd(line)

IsHeadLine(line) == \E h \in PersonHeads : h.head = TrimEnd(line)

\* the messages of a chat body, read off its lines: one for every declaration
\* followed by text, made of the lines up to the next declaration
ExpectedMessages(s) ==
    LET ls     == SplitLines(s, 1)
        next(i) == FirstSuch({k \in (i + 1)..Len(ls) : IsHeadLine(ls[k])}, i + 1, Len(ls))
        body(i) == Trim(JoinLines([k \in 1..(next(i) - i - 1) |-> TrimEnd(ls[i + k])]))
        heads  == SelectSeq([i \in 1..Len(ls) |-> i],
                            LAMBDA i : IsHeadLine(ls[i]) /\ body(i) # <<>>)
    IN  [k \in 1..Len(heads) |->
            [name |-> HeadOf(ls[heads[k]]).name,
             hasAvatar |-> HeadOf(ls[heads[k]]).hasAvatar,
             avatar |-> HeadOf(ls[heads[k]]).avatar,
             content |-> body(heads[k])]]

\* C7 as written: the example yields two messages in source order and the
\* second carries a derived avatar URL that contains the name B.
C7_AvatarForB ==
    (pc = "chatDone" /\ content = ChatExample) =>
        /\ Len(messages) = 2
        /\ messages[1].name = Chars("A") /\ messages[2].name = Chars("B")
        /\ messages[2].hasAvatar
        /\ Includes(messages[2].avatar, Chars("B"))

\* C7 amended: parseChatContent returns one message per declaration that is
\* followed by text, in source order; the example yields A: hi and B: yo, and B
\* has no avatar because a Minecraft avatar is derived only for names of 3 to
\* 16 word characters (Bob gets https://mc-heads.net/avatar/Bob).
C7_ChatParsing ==
    pc = "chatDone" =>
        /\ messages = ExpectedMessages(content)
        /\ content = ChatExample =>
              /\ Len(messages) = 2
              /\ ~messages[2].hasAvatar

\* C7 witness: the example has been parsed into its two messages
C7_Witness ==
    /\ pc = "chatDone"
    /\ content = ChatExample
    /\ Len(messages) = 2
    /\ messages[1].content = Chars("hi")
    /\ messages[2].name = Chars("B")
    /\ messages[2].content = Chars("yo")

(***************************************************************************)
(* MarkdownRenderer: ordered list numbers                                  *)
(***************************************************************************)

ChatVars == << currentPerson, currentContent, messages >>

\* line.match(/^(`{3,}|~{3,})/): the run of fence characters the line starts
\* with, <<>> when it starts with fewer than three
FenceOf(line) ==
    IF line # <<>> /\ line[1] \in {BQ, "~"} /\ RunEnd(line, 1, line[1]) > 3
    THEN SubSeq(line, 1, RunEnd(line, 1, line[1]) - 1)
    ELSE <<>>

NoItem == [found |-> FALSE, number |-> 0, indent |-> 0]

\* line.match(/^(\s*)(\d+)\.\s+/) with every indent read as 0
ItemMatchFlat(line) ==
    LET w == SpaceEnd(line, 1)
        d == DigitEnd(line, w)
    IN  IF d > w /\ d + 1 <= Len(line) /\ line[d] = "." /\ IsSpace(line[d + 1])
        THEN [found |-> TRUE, number |-> ParseInt(SubSeq(line, w, d - 1)), indent |-> 0]
        ELSE NoItem

\* line.match(/^(\s*)(\d+)\.\s+/): number is parseInt of the digits, indent the
\* length of the leading white space
ItemMatch(line) ==
    LET w == SpaceEnd(line, 1)
        d == DigitEnd(line, w)
    IN  IF d > w /\ d + 1 <= Len(line) /\ line[d] = "." /\ IsSpace(line[d + 1])
        THEN [found |-> TRUE, number |-> ParseInt(SubSeq(line, w, d - 1)),
              indent |-> w - 1]
        ELSE NoItem

ScanUnchanged == UNCHANGED << content, PipelineVars, ChatVars, dom, shown, TabsVars >>

\* const lines = content.split('\n')
ScanStart ==
    /\ pc = "scanStart"
    /\ lines' = SplitLines(content, 1)
    /\ idx' = 1
    /\ pc' = "scan"
    /\ UNCHANGED << inCodeBlock, codeBlockFence, numbers >>
    /\ ScanUnchanged

ScanLine ==
    /\ pc = "scan"
    /\ idx <= Len(lines)
    /\ idx' = idx + 1
    /\ UNCHANGED << lines, pc >>
    /\ ScanUnchanged

\* a fence line outside a code block opens one
FenceOpen ==
    /\ ScanLine
    /\ FenceOf(lines[idx]) # <<>>
    /\ ~inCodeBlock
    /\ inCodeBlock' = TRUE
    /\ codeBlockFence' = FenceOf(lines[idx])
    /\ UNCHANGED numbers

\* a fence line that starts with the opening fence closes the block
FenceClose ==
    /\ ScanLine
    /\ FenceOf(lines[idx]) # <<>>
    /\ inCodeBlock
    /\ MatchAt(lines[idx], 1, codeBlockFence)
    /\ inCodeBlock' = FALSE
    /\ codeBlockFence' = <<>>
    /\ UNCHANGED numbers

\* any other fence line inside a block is code
FenceInside ==
    /\ ScanLine
    /\ FenceOf(lines[idx]) # <<>>
    /\ inCodeBlock
    /\ ~MatchAt(lines[idx], 1, codeBlockFence)
    /\ UNCHANGED << inCodeBlock, codeBlockFence, numbers >>

\* if (inCodeBlock) continue
CodeLine ==
    /\ ScanLine
    /\ FenceOf(lines[idx]) = <<>>
    /\ inCodeBlock
    /\ UNCHANGED << inCodeBlock, codeBlockFence, numbers >>

\* numbers.push({ number, indent })
ItemLine ==
    /\ ScanLine
    /\ FenceOf(lines[idx]) = <<>>
    /\ ~inCodeBlock
    /\ ItemMatch(lines[idx]).found
    /\ numbers' = Append(numbers, [number |-> ItemMatch(lines[idx]).number,
                                   indent |-> ItemMatch(lines[idx]).indent])
    /\ UNCHANGED << inCodeBlock, codeBlockFence >>

OtherLine ==
    /\ ScanLine
    /\ FenceOf(lines[idx]) = <<>>
    /\ ~inCodeBlock
    /\ ~ItemMatch(lines[idx]).found
    /\ UNCHANGED << inCodeBlock, codeBlockFence, numbers >>

\* return numbers
ScanDone ==
    /\ pc = "scan"
    /\ idx > Len(lines)
    /\ pc' = "scanned"
    /\ UNCHANGED << lines, idx, inCodeBlock, codeBlockFence, numbers >>
    /\ ScanUnchanged

-----------------------------------------------------------------------------
(* The rendered elements and updateListNumbers *)

\* an element of the container: its tag, the index of its parent (0: the
\* container), the number written on the source line of an ordered-list item,
\* and whether it is in the document (the elements of a tab pane are not
\* until the pane is rendered)
Element(tag, parent, number, present) ==
    [tag |-> tag, parent |-> parent, number |-> number, present |-> present]

RECURSIVE InsideLi(_, _)
\* ol.closest('li') !== null
InsideLi(d, i) ==
    IF d[i].parent = 0 THEN FALSE
    ELSE d[d[i].parent].tag = "li" \/ InsideLi(d, d[i].parent)

RECURSIVE collectListItems(_, _)
\* the list items of ol depth-first: each item, then the items of the ordered
\* lists that are its children
collectListItems(d, ol) ==
    LET \* Array.from(el.children).filter(child => child.tagName === TAG)
        ChildrenOf(i, tag) ==
            SelectSeq([j \in 1..Len(d) |-> j],
                      LAMBDA j : d[j].parent = i /\ d[j].tag = tag /\ d[j].present)
        Nested(ols) == Concat([n \in 1..Len(ols) |-> collectListItems(d, ols[n])])
        Items(lis)  ==
            Concat([k \in 1..Len(lis) |-> <<lis[k]>> \o Nested(ChildrenOf(lis[k], "ol"))])
    IN  Items(ChildrenOf(ol, "li"))

\* container.querySelectorAll('ol') filtered by !ol.closest('li')
topLevelOls(d) ==
    SelectSeq([j \in 1..Len(d) |-> j],
              LAMBDA j : d[j].tag = "ol" /\ d[j].present /\ ~InsideLi(d, j))

\* the deferred pass: the k-th collected item shows the k-th recovered number
updateListNumbers ==
    LET allListItems(ols) == Concat([k \in 1..Len(ols) |-> collectListItems(dom, ols[k])])
        \* parseOrderedListNumbers[index].number, index + 1 past the end
        actualNumber(k) == IF k <= Len(numbers) THEN numbers[k].number ELSE k
        Numbered(items) ==
            [j \in 1..Len(dom) |->
                IF \E k \in 1..Len(items) : items[k] = j
                THEN actualNumber(CHOOSE k \in 1..Len(items) : items[k] = j)
                ELSE shown[j]]
    IN  /\ pc = "scanned"
        /\ pc' = "numbered"
        /\ shown' = Numbered(allListItems(topLevelOls(dom)))
        /\ UNCHANGED << content, PipelineVars, ChatVars, lines, idx, inCodeBlock,
                        codeBlockFence, numbers, dom, TabsVars >>

\* handleTabClick: a pane that was not rendered yet is added to the document
handleTabClick ==
    /\ pc \in {"scanned", "numbered"}
    /\ \E j \in 1..Len(dom) : ~dom[j].present
    /\ dom' = [j \in 1..Len(dom) |-> [dom[j] EXCEPT !.present = TRUE]]
    /\ UNCHANGED << content, PipelineVars, ChatVars, lines, idx, inCodeBlock,
                    codeBlockFence, numbers, shown, pc, TabsVars >>

ListNext ==
    \/ ScanStart
    \/ FenceOpen
    \/ FenceClose
    \/ FenceInside
    \/ CodeLine
    \/ ItemLine
    \/ OtherLine
    \/ ScanDone
    \/ updateListNumbers
    \/ handleTabClick

-----------------------------------------------------------------------------
(* Documents with ordered lists, and the elements Markdown renders for them *)

ListExample == Chars("1. a\n2. b\n    1. c\n    2. d\n3. e")

\* blocks of a document: the source text and the elements rendered for it
\* (parents counted within the block); open marks a fence that is not closed
ListBlocks ==
    << [src  |-> ListExample,
        els  |-> << Element("ol", 0, 0, TRUE), Element("li", 1, 1, TRUE),
                    Element("li", 1, 2, TRUE), Element("ol", 3, 0, TRUE),
                    Element("li", 4, 1, TRUE), Element("li", 4, 2, TRUE),
                    Element("li", 1, 3, TRUE) >>,
        open |-> FALSE],
       [src  |-> Chars("5. x\n6. y"),
        els  |-> << Element("ol", 0, 0, TRUE), Element("li", 1, 5, TRUE),
                    Element("li", 1, 6, TRUE) >>,
        open |-> FALSE],
       [src  |-> Chars("- u\n  1. v\n  2. w"),
        els  |-> << Element("ul", 0, 0, TRUE), Element("li", 1, 0, TRUE),
                    Element("ol", 2, 0, TRUE), Element("li", 3, 1, TRUE),
                    Element("li", 3, 2, TRUE) >>,
        open |-> FALSE],
       [src  |-> Chars(":::tabs\n@tab A\n7. m\n@tab B\n8. n\n:::"),
        els  |-> << Element("div", 0, 0, TRUE), Element("div", 1, 0, TRUE),
                    Element("ol", 2, 0, TRUE), Element("li", 3, 7, TRUE),
                    Element("div", 1, 0, FALSE), Element("ol", 5, 0, FALSE),
                    Element("li", 6, 8, FALSE) >>,
        open |-> FALSE],
       [src  |-> Fence3BQ \o Chars("\n1. x\n~~~\n") \o Fence3BQ,
        els  |-> << Element("pre", 0, 0, TRUE) >>,
        open |-> FALSE],
       [src  |-> Chars("~~~~\n2. y\n~~~\n~~~~"),
        els  |-> << Element("pre", 0, 0, TRUE) >>,
        open |-> FALSE],
       [src  |-> Fence3BQ \o Chars("\n9. z"),
        els  |-> << Element("pre", 0, 0, TRUE) >>,
        open |-> TRUE] >>

MaxBlocks == 3

RECURSIVE BlockSeqs(_)
\* the documents of at most n blocks; a fence left open can only end one
BlockSeqs(n) ==
    IF n = 0 THEN {<<>>}
    ELSE BlockSeqs(n - 1) \cup
         {Append(bs, b) : bs \in {x \in BlockSeqs(n - 1) :
                                     x = <<>> \/ ~ListBlocks[x[Len(x)]].open},
                          b \in 1..Len(ListBlocks)}

RECURSIVE SourceOf(_)
\* the source of the blocks bs, a paragraph written between every two of them
SourceOf(bs) ==
    IF bs = <<>> THEN <<>>
    ELSE IF Len(bs) = 1 THEN ListBlocks[bs[1]].src
    ELSE SourceOf(SubSeq(bs, 1, Len(bs) - 1)) \o Chars("\n\np\n\n")
         \o ListBlocks[bs[Len(bs)]].src

RECURSIVE ElementsOf(_)
\* the elements rendered for the blocks bs: the elements of a block are placed
\* after the `base` elements before it
ElementsOf(bs) ==
    LET Placed(els, base) ==
            [j \in 1..Len(els) |->
                [els[j] EXCEPT !.parent = IF els[j].parent = 0 THEN 0
                                          ELSE els[j].parent + base]]
        After(sep) == sep \o Placed(ListBlocks[bs[Len(bs)]].els, Len(sep))
        Sep(before) == IF Len(bs) = 1 THEN before ELSE Append(before, Element("p", 0, 0, TRUE))
    IN  IF bs = <<>> THEN <<>>
        ELSE After(Sep(ElementsOf(SubSeq(bs, 1, Len(bs) - 1))))

InitList ==
    /\ \E bs \in BlockSeqs(MaxBlocks) :
          /\ content = SourceOf(bs)
          /\ dom = ElementsOf(bs)
          /\ shown = [j \in 1..Len(ElementsOf(bs)) |-> 0]
    /\ pc = "scanStart"
    /\ IdlePipeline
    /\ lines = <<>> /\ idx = 0 /\ currentPerson = <<>> /\ currentContent = <<>>
    /\ messages = <<>> /\ inCodeBlock = FALSE /\ codeBlockFence = <<>>
    /\ numbers = <<>>
    /\ IdleTabs

SpecList == InitList /\ [][ListNext]_vars

RECURSIVE FencedLines(_, _)
\* the lines of ls from i on that belong to fenced code blocks: from a line that
\* starts with three or more fence characters to the next line that starts
\* with that same run, or to the end when no such line follows
FencedLines(ls, i) ==
    LET o == FirstSuch({k \in i..Len(ls) : FenceOf(ls[k]) # <<>>}, i, Len(ls))
        c == FirstSuch({k \in (o + 1)..Len(ls) : MatchAt(ls[k], 1, FenceOf(ls[o]))},
                       o + 1, Len(ls))
    IN  IF o > Len(ls) THEN {}
        ELSE IF c > Len(ls) THEN o..Len(ls)
        ELSE (o..c) \cup FencedLines(ls, c + 1)

\* <indent><digits>.<space>: w white-space characters, then digits up to d,
\* a period and a white-space character
IsItem(line, w, d) ==
    /\ w < d /\ d + 2 <= Len(line)
    /\ \A k \in 1..w : IsSpace(line[k])
    /\ \A k \in (w + 1)..d : IsDigit(line[k])
    /\ line[d + 1] = "." /\ IsSpace(line[d + 2])

\* the entries the claim describes: in source order, one for every line outside
\* the fenced blocks that is written <indent><digits>.<space>
ExpectedEntries(s) ==
    LET ls    == SplitLines(s, 1)
        code  == FencedLines(ls, 1)
        item(i) == \E w \in 0..Len(ls[i]), d \in 1..Len(ls[i]) : IsItem(ls[i], w, d)
        at    == SelectSeq([i \in 1..Len(ls) |-> i], LAMBDA i : i \notin code /\ item(i))
        wd(i) == CHOOSE p \in (0..Len(ls[i])) \X (1..Len(ls[i])) : IsItem(ls[i], p[1], p[2])
    IN  [k \in 1..Len(at) |->
            [number |-> ParseInt(SubSeq(ls[at[k]], wd(at[k])[1] + 1, wd(at[k])[2])),
             indent |-> wd(at[k])[1]]]

ExampleEntries ==
    << [number |-> 1, indent |-> 0], [number |-> 2, indent |-> 0],
       [number |-> 1, indent |-> 4], [number |-> 2, indent |-> 4],
       [number |-> 3, indent |-> 0] >>

\* C6: parseOrderedListNumbers returns, in source order, one (number, indent)
\* entry for every line outside a fenced code block written
\* <indent><digits>.<space>, and none for the lines inside fenced blocks; for
\* the example it returns (1,0), (2,0), (1,4), (2,4), (3,0).
C6_ListEntries ==
    pc \in {"scanned", "numbered"} =>
        /\ numbers = ExpectedEntries(content)
        /\ content = ListExample => numbers = ExampleEntries

\* C6 witness: the example has been scanned and its five entries recovered
C6_Witness ==
    /\ pc = "scanned"
    /\ content = ListExample
    /\ numbers = ExampleEntries

\* the number an item shows: the one the pass wrote, and for an item the pass
\* did not reach the list's own numbering (the first item's number counted up)
Displayed(j) ==
    IF shown[j] # 0 THEN shown[j]
    ELSE LET sibs == SelectSeq([k \in 1..Len(dom) |-> k],
                               LAMBDA k : dom[k].parent = dom[j].parent /\ dom[k].tag = "li")
             pos  == CHOOSE k \in 1..Len(sibs) : sibs[k] = j
         IN  dom[sibs[1]].number + pos - 1

\* C5: after the list-numbering pass every ordered-list item in the document
\* shows the number written on its source line, in whatever container its
\* list is nested.
C5_ListNumbers ==
    pc = "numbered" =>
        \A j \in 1..Len(dom) :
            (/\ dom[j].present /\ dom[j].tag = "li"
             /\ dom[j].parent # 0 /\ dom[dom[j].parent].tag = "ol")
                => Displayed(j) = dom[j].number

(***************************************************************************)
(* Attribute headers and the order of their pairs                          *)
(***************************************************************************)

\* the most pairs written in a header
MaxPairs == 2

\* name:value pairs of the recognized attributes of every block kind
AttrPairs ==
    [ alert |-> {Chars("type:error"), Chars("title:T"), Chars("title:Prototype: x")},
      video |-> {Chars("width:50%"), Chars("align:left"), Chars("caption:hi")},
      image |-> {Chars("align:left"), Chars("width:5"), Chars("caption:c")},
      card  |-> {Chars("url:u"), Chars("title:T"), Chars("title:Image: s"),
                 Chars("image:p")} ]

\* the name of a pair: the text before its first colon
AttrName(pair) == SubSeq(pair, 1, IndexOf(pair, <<":">>, 1) - 1)

\* the orderings of the pairs P: every pair written once
Orderings(P) ==
    {q \in [1..Cardinality(P) -> P] : \A i, j \in 1..Cardinality(P) : q[i] = q[j] => i = j}

\* the pairs q written as a header: separated by a comma and a space
HeaderText(q) ==
    Concat([k \in 1..Len(q) |-> IF k = 1 THEN q[k] ELSE Chars(", ") \o q[k]])

\* the document that holds one block of the kind with the header attrs
BlockWith(kind, attrs) ==
    IF kind = "alert" THEN Chars(":::alert{") \o attrs \o Chars("}b:::")
    ELSE IF kind = "video" THEN Chars(":::video{") \o attrs \o Chars("}v:::")
    ELSE IF kind = "image" THEN Chars("![a](u){") \o attrs \o Chars("}")
    ELSE Chars(":::link-card{") \o attrs \o Chars("}:::")

\* the headers of the model: at most MaxPairs pairs with different names, in
\* every order
AttrHeaders ==
    UNION {{[kind |-> kind, pairs |-> q] :
               q \in UNION {Orderings(P) :
                               P \in {S \in SUBSET AttrPairs[kind] :
                                         /\ Cardinality(S) \in 1..MaxPairs
                                         /\ \A x, y \in S :
                                               AttrName(x) = AttrName(y) => x = y}}} :
           kind \in {"alert", "video", "image", "card"}}

\* one block with every header, and the empty document
InitAttrs == InitOn({BlockWith(h.kind, HeaderText(h.pairs)) : h \in AttrHeaders} \cup {<<>>})

SpecAttrs == InitAttrs /\ [][ProcessNext]_vars

\* what the parser of the kind reads from the header attrs: the parsed
\* attributes of an alert or a video, the element written for an image, the
\* url, title, description and image of a link-card
AttrValues(kind, attrs) ==
    IF kind = "alert" THEN <<parseAlertAttrs(attrs)>>
    ELSE IF kind = "video" THEN <<parseVideoAttrs(attrs)>>
    ELSE IF kind = "image" THEN <<RewriteImages(BlockWith(kind, attrs))>>
    ELSE <<LinkCardAttr(attrs, Chars("url:")), LinkCardAttr(attrs, Chars("title:")),
           LinkCardAttr(attrs, Chars("description:")), LinkCardAttr(attrs, Chars("image:"))>>

\* C11: for the header of every processed block and every permutation of its
\* name:value pairs, the kind's attribute parser reads the same value for
\* every recognized attribute from the permuted header as from the header;
\* the output of processContent is the one written from these values.
C11_OrderIndependent ==
    pc = "done" /\ pass = 1 =>
        \A h \in AttrHeaders :
            content = BlockWith(h.kind, HeaderText(h.pairs)) =>
                \A q \in Orderings({h.pairs[k] : k \in 1..Len(h.pairs)}) :
                    AttrValues(h.kind, HeaderText(q))
                        = AttrValues(h.kind, HeaderText(h.pairs))

-----------------------------------------------------------------------------
(***************************************************************************)
(* The Tabs component: its panes and which of them are realized            *)
(***************************************************************************)

\* the most clicks on tab buttons
MaxClicks == 3

\* the longest document with tabs, counted in fragments
MaxTabFrags == 4

\* a state updater that forgets the panes realized before
AddRenderedOnly(prev, index) == {index}

\* prev => new Set([...prev, index])
AddRendered(prev, index) == prev \cup {index}

\* the div component that Tabs hands to the Markdown of its panes: chart,
\* alert and video branches only; a chart of an unknown type falls through to
\* the branches after the chart branch
TabsDivDispatch(props) ==
    LET Rest ==
            IF Prop(props, Chars("data-alert-type")) # <<>>
            THEN AlertDispatch(Prop(props, Chars("data-alert-type")),
                               Prop(props, Chars("data-alert-title")))
            ELSE IF Includes(Prop(props, Chars("class")), Chars("alert-block"))
            THEN Presentation("alert", FALSE, <<>>,
                              AlertClassType(Prop(props, Chars("class"))), <<>>)
            ELSE IF Prop(props, Chars("data-video-url")) # <<>> THEN VideoDispatch(props)
            ELSE Plain("div")
        Decoded(chartType, d) ==
            IF ~d.ok THEN Plain("null")
            ELSE IF ~JsonParses(d.val)
            THEN Presentation("error", TRUE, d.val, Chars("Chart data must be valid JSON"),
                              <<>>)
            ELSE IF chartType = Chars("echarts")
            THEN Presentation("echarts", TRUE, d.val, <<>>, <<>>)
            ELSE Rest
        Chart(chartType, dataStr) ==
            IF dataStr = <<>> THEN Plain("null")
            ELSE Decoded(chartType, decodeURIComponent(dataStr))
    IN  IF Prop(props, Chars("data-chart-type")) # <<>>
        THEN Chart(Prop(props, Chars("data-chart-type")),
                   Prop(props, Chars("data-chart-data")))
        ELSE Rest

\* TabContent: a string content is handed to Markdown as it is, with the div
\* component of Tabs; a content that is no string is put in a plain <div>
TabContent(tab) ==
    LET Of(tags) == [k \in 1..Len(tags) |-> TabsDivDispatch(tags[k])]
    IN  IF tab.decoded THEN Of(DivTags(tab.payload, 1)) ELSE <<>>

\* the panes Tabs returns: pane index (counted from 0) is an element only when
\* renderedTabs has it
PanesOf(ts, realized) ==
    [k \in 1..Len(ts) |->
        IF (k - 1) \in realized THEN [realized |-> TRUE, divs |-> TabContent(ts[k])]
        ELSE [realized |-> FALSE, divs |-> <<>>]]

TabsUnchanged ==
    UNCHANGED << content, PipelineVars, ChatVars, lines, idx, inCodeBlock, codeBlockFence,
                 numbers, dom, shown, MemoVars >>

\* the first render of one Tabs element of the page: its children are the tab
\* divs that follow the data-tabs div
Tabs ==
    /\ pc = "rendered"
    /\ \E k \in 1..Len(rendered) :
          /\ rendered[k].kind = "tabs"
          /\ LET Children(to) == SubSeq(rendered, k + 1, to - 1)
             IN  tabs' = Children(FirstSuch({j \in (k + 1)..Len(rendered) :
                                                rendered[j].kind # "tab"},
                                            k + 1, Len(rendered)))
    /\ activeTab' = 0
    /\ renderedTabs' = {0}
    /\ idleCallbacks' = <<>>
    /\ hasRequestIdleCallback' \in BOOLEAN
    /\ clicked' = <<>>
    /\ panes' = PanesOf(tabs', renderedTabs')
    /\ pc' = "mounted"
    /\ TabsUnchanged

\* onClick={() => handleTabClick(index)} of the button of pane index
onClick(index) ==
    /\ pc = "mounted"
    /\ index \in 0..(Len(tabs) - 1)
    /\ Len(clicked) < MaxClicks
    /\ clicked' = Append(clicked, index)
    /\ activeTab' = index
    /\ IF hasRequestIdleCallback
       THEN /\ idleCallbacks' = Append(idleCallbacks, index)
            /\ renderedTabs' = renderedTabs
       ELSE /\ idleCallbacks' = idleCallbacks
            /\ renderedTabs' = AddRendered(renderedTabs, index)
    /\ panes' = PanesOf(tabs, renderedTabs')
    /\ UNCHANGED << pc, tabs, hasRequestIdleCallback >>
    /\ TabsUnchanged

\* an idle callback that, once run, drops the callbacks still pending
setRenderedTabsLast ==
    /\ pc = "mounted"
    /\ \E k \in 1..Len(idleCallbacks) :
          /\ renderedTabs' = AddRendered(renderedTabs, idleCallbacks[k])
          /\ idleCallbacks' = <<>>
    /\ panes' = PanesOf(tabs, renderedTabs')
    /\ UNCHANGED << pc, tabs, activeTab, hasRequestIdleCallback, clicked >>
    /\ TabsUnchanged

\* the browser runs one of the pending idle callbacks
setRenderedTabs ==
    /\ pc = "mounted"
    /\ \E k \in 1..Len(idleCallbacks) :
          /\ renderedTabs' = AddRendered(renderedTabs, idleCallbacks[k])
          /\ idleCallbacks' = SubSeq(idleCallbacks, 1, k - 1)
                              \o SubSeq(idleCallbacks, k + 1, Len(idleCallbacks))
    /\ panes' = PanesOf(tabs, renderedTabs')
    /\ UNCHANGED << pc, tabs, activeTab, hasRequestIdleCallback, clicked >>
    /\ TabsUnchanged

TabsNext ==
    \/ ProcessNext
    \/ Tabs
    \/ \E index \in 0..MaxTabFrags : onClick(index)
    \/ setRenderedTabs

\* tabs of up to three panes; a pane may hold a chat block
InitTabs ==
    InitOn(DocsOf({ Chars(":::tabs\n@tab A\n"), Chars("@tab B\ny\n"),
                    Chars(":::chat\n@person name:C\nh\n:::\n"), Chars(":::") },
                  MaxTabFrags))

SpecTabs == InitTabs /\ [][TabsNext]_vars

\* C12: while a Tabs is mounted, pane 0 is realized, every other realized
\* pane has been clicked, and a step never takes a pane out of the realized
\* ones.
C12_Realized ==
    /\ [](pc = "mounted" /\ tabs # <<>> =>
            /\ panes[1].realized
            /\ \A i \in 1..(Len(panes) - 1) :
                  panes[i + 1].realized => \E k \in 1..Len(clicked) : clicked[k] = i)
    /\ [][pc = "mounted" =>
            \A i \in 1..Len(panes) : panes[i].realized => panes'[i].realized]_vars

\* C12: pane 1 has been clicked and is realized, and pane 0 is active again
C12_Witness ==
    /\ pc = "mounted"
    /\ Len(panes) >= 2
    /\ panes[2].realized
    /\ activeTab = 0
    /\ \E k \in 1..Len(clicked) : clicked[k] = 1

\* C14: the divs of every realized pane of a mounted Tabs are dispatched to
\* the same presentations as the page's div component gives the same pane
\* content: a block nested in a pane is handled like the block at top level.
C14_NestedLikeTopLevel ==
    pc = "mounted" =>
        \A i \in 1..Len(panes) :
            panes[i].realized /\ tabs[i].decoded => panes[i].divs = Render(tabs[i].payload)

\* C17: while a Tabs is mounted, the active pane is one of the realized
\* panes: activeTab is in renderedTabs in every state.
C17_ActiveRealized ==
    pc = "mounted" /\ tabs # <<>> => activeTab \in renderedTabs /\ panes[activeTab + 1].realized

-----------------------------------------------------------------------------
(***************************************************************************)
(* Carriers whose payload does not decode                                  *)
(***************************************************************************)

\* carrier divs written in the document, with payloads that decode ("hi", "u")
\* and payloads that do not ("%")
InitDecode ==
    InitOn(DocsOf(
        { Chars("<div data-chart-type=\"echarts\" data-chart-data=\"%\"></div>"),
          Chars("<div data-chat=\"true\" data-chat-content=\"%\"></div>"),
          Chars("<div data-chat=\"true\" data-chat-content=\"hi\"></div>"),
          Chars("<div data-link-card=\"true\" data-link-url=\"%\"></div>"),
          Chars("<div data-link-card=\"true\" data-link-url=\"u\"></div>"),
          Chars("<div data-tabs=\"true\"><div data-tab-label=\"T\" data-tab-content=\"%\">")
              \o Chars("</div></div>"),
          Chars("p\n") },
        MaxFrags))

SpecDecode == InitDecode /\ [][ProcessNext]_vars

\* the div carries a percent-encoded payload that decodeURIComponent rejects
PayloadFails(props) ==
    \E name \in {"data-chart-data", "data-chat-content", "data-tab-content",
                 "data-link-url", "data-link-title", "data-link-description",
                 "data-link-image"} :
        /\ Prop(props, Chars(name)) # <<>>
        /\ ~decodeURIComponent(Prop(props, Chars(name))).ok

\* C13: every carrier div of the processed text whose percent-encoded payload
\* fails to decode is rendered as nothing by the div component.
C13_DecodeFailure ==
    pc = "rendered" =>
        LET Nothing(tags) ==
                \A k \in 1..Len(tags) : PayloadFails(tags[k]) => rendered[k].kind = "null"
        IN  Nothing(DivTags(result, 1))

-----------------------------------------------------------------------------
(***************************************************************************)
(* Inputs that encodeURIComponent rejects                                  *)
(***************************************************************************)

\* blocks of the percent-encoded kinds around text with a lone surrogate
InitSurrogate ==
    InitOn(DocsOf(
        { Chars(":::chat\n"), Chars(":::chart\n"), Chars(":::tabs\n@tab T\n"),
          Chars(":::link-card{url:"), Chars("}"), Chars("\n:::"), <<LoneSurrogate>>,
          Chars("x") },
        MaxFrags))

SpecSurrogate == InitSurrogate /\ [][ProcessNext]_vars

\* C15: processContent never throws: for every document no stage of
\* processContent ends in an exception that leaves processContent.
C15_NeverThrows == pc # "thrown"

-----------------------------------------------------------------------------
(***************************************************************************)
(* Placeholder tokens and their restoration                                *)
(***************************************************************************)

\* code spans in running text, in a tabs block and in a chat block
InitTokens ==
    InitOn(DocsOf(
        { Chars("~~~\n"), Chars("\n~~~"), Fence3BQ \o <<"\n">>, <<"\n">> \o Fence3BQ,
          Chars("$$"), <<BQ, "x", BQ>>, Chars(":::tabs\n"), Chars("@tab T\n"),
          Chars(":::chat\n"), Chars("\n:::") },
        MaxFrags))

SpecTokens == InitTokens /\ [][ProcessNext]_vars

\* s holds a placeholder token of one of the two protection stages
HasToken(s) ==
    \E i \in 1..Len(s) :
        \E p \in {CodeBlockPrefix, Chars("___CODE_BLOCK_PLACEHOLDER_")} :
            /\ MatchAt(s, i, p)
            /\ DigitEnd(s, i + Len(p)) > i + Len(p)
            /\ MatchAt(s, DigitEnd(s, i + Len(p)), Chars("___"))

\* the payloads of the carriers of s that decode
DecodedPayloads(s) ==
    LET Of(tags) ==
            {decodeURIComponent(Prop(tags[k], Chars(name))).val :
                k \in {j \in 1..Len(tags) :
                          \E n \in {"data-tab-content", "data-timeline-content",
                                    "data-chat-content", "data-chart-data"} :
                              decodeURIComponent(Prop(tags[j], Chars(n))).ok},
                name \in {"data-tab-content", "data-timeline-content",
                          "data-chat-content", "data-chart-data"}}
    IN  Of(DivTags(s, 1))

\* C16: in a document that writes no placeholder text itself, every token of
\* the first protection stage has been replaced by the code it stands for
\* when that stage has restored, and when processContent is done every code
\* span protected by the second stage is in the output text or in a decoded
\* payload, and neither the output text nor a decoded payload holds a token.
C16_TokensRestored ==
    ~Includes(content, CodeBlockPrefix) =>
        /\ pc = "protect" /\ pass = 1 =>
              /\ ~HasToken(result)
              /\ \A k \in 1..Len(codeBlockPlaceholders) :
                    Includes(result, codeBlockPlaceholders[k])
        /\ pc = "done" /\ pass = 1 =>
              LET Restored(payloads) ==
                      /\ ~HasToken(result)
                      /\ \A p \in payloads : ~HasToken(p)
                      /\ \A k \in 1..Len(codeBlocks) :
                            \/ Includes(result, codeBlocks[k])
                            \/ \E p \in payloads : Includes(p, codeBlocks[k])
              IN  Restored(DecodedPayloads(result))

-----------------------------------------------------------------------------
(***************************************************************************)
(* Inline rewrites and the block extractors                                *)
(***************************************************************************)

\* chat, tabs and timeline blocks around inline syntax
InitInline ==
    InitOn(DocsOf(
        { Chars(":::chat\n@person name:A\n"), Chars(":::tabs\n@tab T\n"),
          Chars(":::timeline\n@item 2024\n"), Chars("\n:::"),
          Chars("==a=="), Chars("^b^"), Chars("[x](u){i}"), Chars("p ") },
        MaxFrags))

SpecInline == InitInline /\ [][ProcessNext]_vars

\* what the inline rewrites write
InlineMarks ==
    { Chars("<mark>"), Chars("<sup>"), Chars("<sub>"), Chars("<img "),
      Chars("data-link-title="), Chars("data-icon=") }

\* C18: the body that the chat, tabs or timeline extractor captures holds
\* nothing written by an inline rewrite of the enclosing pass: an element of
\* the inline rewrites is in a captured body only when the document itself
\* writes it.
C18_BodiesNotRewritten ==
    \A x \in extracted :
        x.kind \in {"chat", "tab", "item"} =>
            \A mark \in InlineMarks : Includes(x.body, mark) => Includes(content, mark)

-----------------------------------------------------------------------------
(***************************************************************************)
(* The order of the block extractors                                       *)
(***************************************************************************)

\* chat blocks with an empty first line, tabs and link-card blocks behind them
InitOrder ==
    InitOn(DocsOf(
        { Chars(":::chat\n\n"), Chars(":::tabs\n@tab T\nx:::"), Chars("hi:::"),
          Chars(":::link-card{url:u}:::"), Chars("\n:::"), Chars("p") },
        MaxFrags))

SpecOrder == InitOrder /\ [][ProcessNext]_vars

\* C19: the chat extractor has completed over the whole document before the
\* first pass of the tabs extractor: the chat passes that processContent runs
\* after the tabs and link-card extractors extract nothing.
C19_ChatCompleteBeforeTabs ==
    [][pc = "chatAgain" /\ pass = 1 => result' = result]_vars

-----------------------------------------------------------------------------
(***************************************************************************)
(* Precedence of the image, titled-link and icon-link rules                *)
(***************************************************************************)

\* ![alt](url){attrs}, also with a quoted title inside the parentheses
AttributedImages == { Chars("![a](u){w}"), Chars("![a](u \"t\"){w}") }

\* [text](url "title")
TitledLinks == { Chars("[x](u \"t\")") }

\* [text](url){icon}
IconLinks == { Chars("[y](v){i}") }

\* text that is none of the three forms and completes none when put next to one
Fillers == { Chars("{i}"), Chars(" "), Chars("p") }

InitPrecedence ==
    InitOn(DocsOf(AttributedImages \cup TitledLinks \cup IconLinks \cup Fillers, MaxFrags))

SpecPrecedence == InitPrecedence /\ [][ProcessNext]_vars

\* the fragments the document d is written from
FragmentsOf(d) ==
    CHOOSE q \in UNION {[1..n -> AttributedImages \cup TitledLinks \cup IconLinks \cup Fillers] :
                           n \in 0..MaxFrags} :
        Concat(q) = d

-----------------------------------------------------------------------------
(***************************************************************************)
(* Captions and descriptions that hold commas                              *)
(***************************************************************************)

\* the caption or description written in every header of the model
CommaValue == Chars("a, b")

\* headers whose caption or description is CommaValue, alone, before and after
\* other recognized attributes
CommaHeaders ==
    { [kind |-> "video", attrs |-> Chars("caption:a, b")],
      [kind |-> "video", attrs |-> Chars("width:5, caption:a, b")],
      [kind |-> "video", attrs |-> Chars("caption:a, b, width:5")],
      [kind |-> "video", attrs |-> Chars("align:left, caption:a, b, loop:true")],
      [kind |-> "image", attrs |-> Chars("caption:a, b")],
      [kind |-> "image", attrs |-> Chars("width:5, caption:a, b")],
      [kind |-> "image", attrs |-> Chars("caption:a, b, width:5")],
      [kind |-> "image", attrs |-> Chars("align:left, caption:a, b, width:5")],
      [kind |-> "card",  attrs |-> Chars("url:u, description:a, b")],
      [kind |-> "card",  attrs |-> Chars("url:u, description:a, b, title:T")],
      [kind |-> "card",  attrs |-> Chars("description:a, b, url:u")] }

\* one block with every header, and the empty document
InitCommas == InitOn({BlockWith(h.kind, h.attrs) : h \in CommaHeaders} \cup {<<>>})

SpecCommas == InitCommas /\ [][ProcessNext]_vars

\* the attribute that carries the caption or description v in the output
CaptionCarried(kind, v) ==
    IF kind = "video" THEN Chars("data-video-caption=\"") \o v \o <<"\"">>
    ELSE IF kind = "image" THEN Chars("data-image-caption=\"") \o v \o <<"\"">>
    ELSE Chars("data-link-description=\"") \o encodeURIComponent(v) \o <<"\"">>

\* C21: the caption of a video or an image and the description of a
\* link-card that is written with a comma in it is carried whole in the
\* output of processContent: all the text after its key up to the next
\* recognized key or the end of the header, not up to the first comma.
C21_CommaCaptions ==
    pc = "done" /\ pass = 1 =>
        \A h \in CommaHeaders :
            content = BlockWith(h.kind, h.attrs) =>
                Includes(result, CaptionCarried(h.kind, CommaValue))

-----------------------------------------------------------------------------
(***************************************************************************)
(* Quoted attribute values                                                 *)
(***************************************************************************)

\* person declarations with bare and with quoted values, and the person each
\* stands for when a quoted value is the text between its quotes
QuotedHeads ==
    { [head |-> Chars("@person name:Al, avatar:u"), name |-> Chars("Al"),
       avatar |-> Chars("u")],
      [head |-> Chars("@person name:'Al', avatar:\"u,v\""), name |-> Chars("Al"),
       avatar |-> Chars("u,v")],
      [head |-> Chars("@person name:\"A, B\""), name |-> Chars("A, B"),
       avatar |-> <<>>] }

InitQuoted ==
    /\ content \in DocsOf({h.head \o <<"\n">> : h \in QuotedHeads}
                           \cup {Chars("hi\n"), Chars("yo")}, MaxChatFrags)
    /\ pc = "chatStart"
    /\ IdlePipeline
    /\ IdleParsers
    /\ IdleTabs

SpecQuoted == InitQuoted /\ [][ChatNext]_vars

\* C22: the person of every message that parseChatContent returns is a person
\* the chat body declares: its name and avatar are the bare value up to the
\* next comma, or the whole text between the quotes of a quoted value, commas
\* included.
C22_QuotedValues ==
    pc = "chatDone" =>
        \A k \in 1..Len(messages) :
            \E h \in QuotedHeads :
                /\ Includes(content, h.head)
                /\ messages[k].name = h.name
                /\ messages[k].avatar = h.avatar

-----------------------------------------------------------------------------
(***************************************************************************)
(* The avatar of a person                                                  *)
(***************************************************************************)

\* names of 2, 3, 16 and 17 characters, and names of 3 with a character that
\* is no letter, digit or underscore
AvatarNames ==
    { Chars("ab"), Chars("Bob"), Chars("A_1"), Chars("a-b"), Chars("abcdefghijklmnop"),
      Chars("abcdefghijklmnopq") }

\* the avatar values written; <<>> stands for a declaration without avatar
AvatarValues == { <<>>, Chars("minecraft"), Chars("Minecraft"), Chars("u") }

\* a chat body with one declaration, after the text pre and before the text msg
AvatarDoc(pre, name, avatar, msg) ==
    pre \o Chars("@person name:") \o name
    \o (IF avatar = <<>> THEN <<>> ELSE Chars(", avatar:") \o avatar)
    \o <<"\n">> \o msg

InitAvatar ==
    /\ content \in {AvatarDoc(pre, name, avatar, msg) :
                       pre \in {<<>>, Chars("x\n")}, name \in AvatarNames,
                       avatar \in AvatarValues, msg \in {<<>>, Chars("hi")}} \cup {<<>>}
    /\ pc = "chatStart"
    /\ IdlePipeline
    /\ IdleParsers
    /\ IdleTabs

SpecAvatar == InitAvatar /\ [][ChatNext]_vars

\* 3 to 16 characters, each a letter, a digit or an underscore
IsPlayerName(name) ==
    /\ Len(name) \in 3..16
    /\ \A k \in 1..Len(name) :
          name[k] \in {Chars("abcdefghijklmnopqrstuvwxyzABCDEFGHIJKLMNOPQRSTUVWXYZ0123456789_")[j] :
                          j \in 1..63}

-----------------------------------------------------------------------------
(***************************************************************************)
(* The re-indentation of nested ordered lists                              *)
(***************************************************************************)

\* ordered-list lines with an indent of 0, 1, 2 and 6, a fence and a list
\* line to put inside it
InitIndent ==
    InitOn(DocsOf(
        { Chars("1. a\n"), Chars(" 1. b\n"), Chars("  2. c\n"), Chars("      3. d\n"),
          Fence3BQ \o <<"\n">>, Chars("~~~\n"), Chars("p\n") },
        MaxFrags))

SpecIndent == InitIndent /\ [][ProcessNext]_vars

\* the ordered-list lines of s that have no indent, in order
TopLevelItems(s) ==
    SelectSeq(SplitLines(s, 1), LAMBDA line : ItemMatch(line).found /\ ItemMatch(line).indent = 0)

\* the ordered-list lines of s, in order
ItemLines(s) == SelectSeq(SplitLines(s, 1), LAMBDA line : ItemMatch(line).found)

\* an ordered-list line with its indent normalized: 2 to 4 becomes 4, 5 and 6
\* become 7, any other indent is kept
Reindented(line) ==
    LET Item(w) ==
            IF w \in 2..4 THEN Rep(" ", 4) \o From(line, w + 1)
            ELSE IF w \in 5..6 THEN Rep(" ", 7) \o From(line, w + 1)
            ELSE line
    IN  Item(ItemMatch(line).indent)

-----------------------------------------------------------------------------
(***************************************************************************)
(* Fenced regions                                                          *)
(***************************************************************************)

\* fence lines of three and of four backticks, a code line that holds three
\* backticks in the middle, and text
InitRegions ==
    InitOn(DocsOf(
        { Fence3BQ \o <<"\n">>, <<BQ>> \o Fence3BQ \o <<"\n">>, Fence3BQ,
          Chars("x ") \o Fence3BQ \o Chars(" ==a==\n"), Chars("y\n") },
        MaxFrags))

SpecRegions == InitRegions /\ [][ProcessNext]_vars

RECURSIVE FenceRegions(_, _)
\* the closed fenced regions of the lines ls from line i on: <<o, c>> when line
\* o opens with a fence and line c is the next line that starts with that fence
FenceRegions(ls, i) ==
    LET Closed(o, c) ==
            IF o > Len(ls) \/ c > Len(ls) THEN {}
            ELSE {<<o, c>>} \cup FenceRegions(ls, c + 1)
        Opened(o) ==
            Closed(o, IF o > Len(ls) THEN o
                      ELSE FirstSuch({k \in (o + 1)..Len(ls) : MatchAt(ls[k], 1, FenceOf(ls[o]))},
                                     o + 1, Len(ls)))
    IN  Opened(FirstSuch({k \in i..Len(ls) : FenceOf(ls[k]) # <<>>}, i, Len(ls)))

\* the text of the region r of the lines ls: from its opening fence to the end
\* of the fence that closes it
RegionText(ls, r) ==
    JoinLines(SubSeq(ls, r[1], r[2] - 1)) \o <<"\n">> \o FenceOf(ls[r[1]])

\* C25: when processContent has protected the code, every fenced region of
\* the document, from the line that opens with N >= 3 backticks to the next
\* line that starts with N backticks, is one protected block: a shorter run
\* or backticks in the middle of a line have not ended it.
C25_RegionProtected ==
    pc = "chart" /\ pass = 1 =>
        LET Protected(ls) ==
                \A r \in FenceRegions(ls, 1) :
                    \E k \in 1..Len(codeBlocks) : codeBlocks[k] = RegionText(ls, r)
        IN  Protected(SplitLines(content, 1))

-----------------------------------------------------------------------------
(***************************************************************************)
(* Chart carriers of a kind that is not recognized                         *)
(***************************************************************************)

\* chart carriers of the kinds echarts and pie, at top level and in a tab pane
InitKinds ==
    InitOn(DocsOf(
        { Chars(":::tabs\n@tab T\n"), Chars("\n:::"),
          Chars("<div data-chart-type=\"pie\" data-chart-data=\"1\"></div>"),
          Chars("<div data-chart-type=\"echarts\" data-chart-data=\"1\"></div>") },
        MaxFrags))

SpecKinds == InitKinds /\ [][TabsNext]_vars

\* the divs tags of a text are dispatched to the presentations ps with every
\* chart carrier of a kind other than echarts shown as an error that names
\* the kind
UnknownKindsNamed(tags, ps) ==
    \A k \in 1..Len(tags) :
        /\ Prop(tags[k], Chars("data-chart-type")) \notin {<<>>, Chars("echarts")}
        /\ JsonParses(decodeURIComponent(Prop(tags[k], Chars("data-chart-data"))).val)
        => /\ ps[k].kind = "error"
           /\ Includes(ps[k].type, Prop(tags[k], Chars("data-chart-type")))

\* C26: a chart carrier whose data is valid and whose kind is not recognized
\* is shown as an error element that names the kind, by the div component of
\* the page and by the div component of every realized tab pane.
C26_UnknownKind ==
    /\ pc = "rendered" => UnknownKindsNamed(DivTags(result, 1), rendered)
    /\ pc = "mounted" =>
          \A i \in 1..Len(panes) :
              panes[i].realized /\ tabs[i].decoded =>
                  UnknownKindsNamed(DivTags(tabs[i].payload, 1), panes[i].divs)

(***************************************************************************)
(* The list-number effect across a change of content                       *)
(***************************************************************************)

\* the most passes that wait for an idle period at one time
MaxPending == 2

\* the documents MarkdownRenderer is given, one after the other
StaleBlocks == BlockSeqs(1)

\* the effect of a render, run once the memo parseOrderedListNumbers is
\* computed: scheduleUpdate(updateListNumbers) queues the pass, which holds
\* the entries of this render; the effect returns no cleanup
scheduleUpdate ==
    /\ pc = "scanned"
    /\ idleCallbacks' = Append(idleCallbacks, numbers)
    /\ pc' = "scheduled"
    /\ UNCHANGED << content, PipelineVars, ChatVars, lines, idx, inCodeBlock,
                    codeBlockFence, numbers, dom, shown, tabs, activeTab,
                    renderedTabs, hasRequestIdleCallback, clicked, panes, MemoVars >>

\* allListItems.forEach of a pass that holds the entries nums: the k-th item
\* collected from the container shows nums[k].number, k past the end of nums
writeListNumbers(nums) ==
    LET allListItems(ols) == Concat([k \in 1..Len(ols) |-> collectListItems(dom, ols[k])])
        Numbered(items) ==
            [j \in 1..Len(dom) |->
                IF \E k \in 1..Len(items) : items[k] = j
                THEN LET k == CHOOSE n \in 1..Len(items) : items[n] = j
                     IN  IF k <= Len(nums) THEN nums[k].number ELSE k
                ELSE shown[j]]
    IN  Numbered(allListItems(topLevelOls(dom)))

\* the oldest queued pass runs: it queries the container as it is now and
\* writes the entries it was scheduled with
runScheduled ==
    /\ pc = "scheduled"
    /\ idleCallbacks # <<>>
    /\ shown' = writeListNumbers(Head(idleCallbacks))
    /\ idleCallbacks' = Tail(idleCallbacks)
    /\ UNCHANGED << content, PipelineVars, ChatVars, lines, idx, inCodeBlock,
                    codeBlockFence, numbers, dom, pc, tabs, activeTab,
                    renderedTabs, hasRequestIdleCallback, clicked, panes, MemoVars >>

\* MarkdownRenderer is rendered with another content: the memo is computed
\* again and the container shows the elements of the new document
setContent ==
    /\ pc = "scheduled"
    /\ Len(idleCallbacks) < MaxPending
    /\ \E bs \in StaleBlocks :
          /\ SourceOf(bs) # content
          /\ content' = SourceOf(bs)
          /\ dom' = ElementsOf(bs)
          /\ shown' = [j \in 1..Len(ElementsOf(bs)) |-> 0]
    /\ lines' = <<>> /\ idx' = 0 /\ inCodeBlock' = FALSE /\ codeBlockFence' = <<>>
    /\ numbers' = <<>>
    /\ pc' = "scanStart"
    /\ UNCHANGED << PipelineVars, ChatVars, TabsVars >>

StaleNext ==
    \/ ScanStart
    \/ FenceOpen
    \/ FenceClose
    \/ FenceInside
    \/ CodeLine
    \/ ItemLine
    \/ OtherLine
    \/ ScanDone
    \/ scheduleUpdate
    \/ runScheduled
    \/ setContent

InitStale ==
    /\ \E bs \in StaleBlocks :
          /\ content = SourceOf(bs)
          /\ dom = ElementsOf(bs)
          /\ shown = [j \in 1..Len(ElementsOf(bs)) |-> 0]
    /\ pc = "scanStart"
    /\ IdlePipeline
    /\ lines = <<>> /\ idx = 0 /\ currentPerson = <<>> /\ currentContent = <<>>
    /\ messages = <<>> /\ inCodeBlock = FALSE /\ codeBlockFence = <<>>
    /\ numbers = <<>>
    /\ IdleTabs

SpecStale == InitStale /\ [][StaleNext]_vars

\* C27: a list-numbering pass that runs writes what the entries recovered
\* from the content rendered at that time give, also when the content changed
\* after the pass was scheduled.
C27_CurrentEntries ==
    [][(pc = "scheduled" /\ idleCallbacks # <<>> /\ idleCallbacks' = Tail(idleCallbacks))
          => shown' = writeListNumbers(numbers)]_vars

(***************************************************************************)
(* Clicked panes are realized                                              *)
(***************************************************************************)

\* documents with one Tabs block of two and of three panes
InitClicks ==
    InitOn({ Chars(":::tabs\n@tab A\nx\n@tab B\ny\n:::"),
             Chars(":::tabs\n@tab A\nx\n@tab B\ny\n@tab C\nz\n:::"),
             <<>> })

\* the idle callbacks are requested with a timeout of 100 ms: a pending
\* callback is run at the latest when its timeout expires
SpecTabsFair == InitClicks /\ [][TabsNext]_vars /\ WF_vars(setRenderedTabs)

\* C28: after a click on pane i of a mounted Tabs component pane i is
\* eventually realized, for every clicked pane, also when further panes are
\* clicked before the callbacks of earlier clicks have run.
C28_ClickedRealized ==
    \A i \in 0..MaxTabFrags :
        (pc = "mounted" /\ \E k \in 1..Len(clicked) : clicked[k] = i)
            ~> (i < Len(panes) /\ panes[i + 1].realized)

\* C28 witness: panes 1 and 2 were clicked in that order, the callback of the
\* second click has run and realized pane 2, the callback of the first click
\* is still pending
C28_Witness ==
    /\ pc = "mounted"
    /\ hasRequestIdleCallback
    /\ Len(clicked) = 2 /\ clicked[1] = 1 /\ clicked[2] = 2
    /\ idleCallbacks = <<1>>
    /\ panes[3].realized /\ ~panes[2].realized

(***************************************************************************)
(* The re-indentation stage as a whole                                     *)
(***************************************************************************)

\* fenced blocks with dollar signs in them, next to ordered-list lines
InitReindent ==
    InitOn(DocsOf(
        { Chars("~~~\n"), Chars("\n~~~"), Chars("$$"), Chars("1. a\n"), Chars("  2. b\n") },
        MaxFrags))

SpecReindent == InitReindent /\ [][ProcessNext]_vars

\* s has an ordered-list line that starts with white space
HasIndentedItem(s) ==
    LET Indented(line) ==
            \E w \in 1..Len(line), d \in 1..Len(line) : IsItem(line, w, d)
        SomeLine(ls) == \E i \in 1..Len(ls) : Indented(ls[i])
    IN  SomeLine(SplitLines(s, 1))

\* C29: when the re-indentation stage has restored, every fenced code block
\* it protected is in its result as it was in the source, and a document
\* without an indented ordered-list line is returned as it was.
C29_StageKeepsCode ==
    (pc = "protect" /\ pass = 1) =>
        /\ \A k \in 1..Len(codeBlockPlaceholders) :
              Includes(result, codeBlockPlaceholders[k])
        /\ ~HasIndentedItem(text) => result = text

(***************************************************************************)
(* The processedContent memo                                               *)
(***************************************************************************)

\* a cache test that looks only at whether something is cached
CacheHitAny(c) == processedContentRef # <<>>

\* processedContentRef.current?.content === content
CacheHit(c) == processedContentRef # <<>> /\ processedContentRef[1].content = c

\* MarkdownRenderer is rendered with content c once the render before it has
\* handed its text over: the memo returns the cached text on a hit (pc
\* "reused") and calls processContent(c) otherwise
render(c) ==
    /\ pc \in {"handed", "reused"}
    /\ content' = c
    /\ IF CacheHit(c)
       THEN /\ processedContent' = processedContentRef[1].processed
            /\ pc' = "reused"
            /\ UNCHANGED PipelineVars
       ELSE /\ text' = c
            /\ pc' = "start"
            /\ result' = <<>>
            /\ codeBlockPlaceholders' = <<>>
            /\ codeBlocks' = <<>>
            /\ masked' = <<>>
            /\ extracted' = {}
            /\ UNCHANGED << pass, firstOutput, rendered, processedContent >>
    /\ UNCHANGED << processedContentRef, ChatVars, lines, idx, inCodeBlock, codeBlockFence,
                    numbers, dom, shown, tabs, activeTab, renderedTabs, idleCallbacks,
                    hasRequestIdleCallback, clicked, panes >>

\* processContent has returned: processedContentRef.current = { content,
\* processed }; return processed
storeProcessed ==
    /\ pc = "done"
    /\ processedContentRef' = << [content |-> content, processed |-> result] >>
    /\ processedContent' = result
    /\ pc' = "handed"
    /\ UNCHANGED << content, PipelineVars, ChatVars, lines, idx, inCodeBlock,
                    codeBlockFence, numbers, dom, shown, tabs, activeTab, renderedTabs,
                    idleCallbacks, hasRequestIdleCallback, clicked, panes >>

\* the content values of the renders
MemoDocs ==
    { <<>>, Chars("a"), Chars("==a=="), Chars("^a^"), Chars(":::info\na\n:::"),
      Chars("  1. a"), Chars("~~~\n$$\n~~~") }

MemoNext ==
    \/ EarlyReturn
    \/ ProtectForIndentStep
    \/ FixIndentStep
    \/ RestoreForIndentStep
    \/ ProtectStep
    \/ ChartStep
    \/ VideoStep
    \/ AlertStep
    \/ InlineStep
    \/ FirstChatStep
    \/ TabsStep
    \/ LinkCardStep
    \/ SecondChatStep
    \/ TimelineStep
    \/ RestoreStep
    \/ storeProcessed
    \/ \E c \in MemoDocs : render(c)

InitMemo == InitOn(MemoDocs)

SpecMemo == InitMemo /\ [][MemoNext]_vars

\* C30: whenever a render has handed its text to the Markdown renderer, that
\* text is what the processContent call on the current content returned, and
\* a render reuses the cached text only when the cached document is the
\* content it is rendered with.
C30_MemoCurrent ==
    pc \in {"handed", "reused"} =>
        /\ text = content
        /\ processedContent = result
        /\ processedContentRef = << [content |-> content, processed |-> processedContent] >>

\* C30 witness: a render with the content of the render before it has reused
\* the cached text
C30_Witness ==
    /\ pc = "reused"
    /\ content = Chars("==a==")
    /\ processedContentRef # <<>>
    /\ processedContentRef[1].content = content
    /\ processedContent = processedContentRef[1].processed
    /\ processedContent # content

====
